---- MODULE Spec2Model ----
(***************************************************************************)
(* Bandwidth telemetry worker (downloader.py) and its process supervisor   *)
(* (server.py).                                                            *)
(*                                                                         *)
(* Units.  Speeds are whole Mbps.  Wall-clock time (now, timestamps) is in *)
(* whole seconds.  The duration of one transfer (time_taken) is in eighths *)
(* of a second, so that a transfer of 16384*v*t bytes in t eighths has the *)
(* speed v exactly, as the float arithmetic of calculate_speed gives.       *)
(* total_gb of a snapshot is held in thousandths of a GiB, baseline_speed  *)
(* of a snapshot in hundredths of a Mbps (the digits round() keeps).       *)
(***************************************************************************)
EXTENDS Integers, Sequences, FiniteSets, TLC

VARIABLES
  \* ---- worker process (DownloadTester) ----
  pc,                  \* control position of the worker process
  running,             \* self.running
  paused,              \* self.paused
  total_bytes,         \* self.total_bytes
  session_start,       \* self.session_start ([set, at])
  speed_samples,       \* self.speed_samples (recent_speeds)
  data_points,         \* self.data_points
  errors,              \* self.errors
  peak_speed,          \* self.peak_speed
  speed_history,       \* self.speed_history
  baseline_speed,      \* self.baseline_speed ([set, num, den]: num/den Mbps)
  throttle_detected,   \* self.throttle_detected
  performance_samples, \* self.performance_samples
  performance_stats,   \* self.performance_stats ([close, below, above, total])
  url_index,           \* run_download_loop: url_index
  last_save,           \* run_download_loop: last_save
  xfer,                \* the transfer in flight ([rate, bytes, start, stall])
  pending,             \* the snapshot a save in progress is writing
  mode,                \* "fresh" or "resume": the --resume flag of the child
  \* ---- files shared by the two processes ----
  data_file,           \* data.json ([state, snap])
  pause_signal,        \* pause.signal exists
  resume_signal,       \* resume.signal exists
  \* ---- supervisor process (DataCapTesterServer) ----
  downloader_process,  \* self.downloader_process (0: None, else the child's pid)
  alive,               \* pids of the child processes that have not exited
  launched,            \* number of children launched so far
  sup,                 \* control position of the supervisor
  stop_deadline,       \* when stop_downloader's wait(timeout=8) gives up
  then_reset,          \* the stop in progress is the one reset_stats began
  last_read,           \* what the supervisor's last read of data.json returned
  last_report,         \* the status the last load_data reported
  start_result,        \* what the last start_downloader returned
  clear_data,          \* the data clear_errors holds between its read and write
  \* ---- environment ----
  now,                 \* wall-clock time, seconds
  workload,            \* the speeds the network delivers in a measurement run
  config,              \* self.config: [test_urls (how many), data_cap_gb]
  \* ---- observers of the dashboard (server.py) ----
  websocket_connections, \* self.websocket_connections: the accepted sockets
  closed,              \* sockets whose client is gone: a send to one raises
  accepted,            \* sockets accepted so far (each socket is a new object)
  broadcast,           \* the broadcast_to_websockets call in progress
  fed,                 \* samples fed to the aggregator and detector so far
  orphan_snap,         \* the snapshot a child the supervisor lost track of saves
  ops,                 \* supervisor operations called so far
  faults,              \* failures of the environment so far
  dup,                 \* [pause, resume]: the signal file present was only
                       \* requested while the worker already was in that state
  session_reset,       \* reset_stats has run since the worker last loaded
  stop_seen            \* the last stop request ([requested, saved, done])

vars == <<pc, running, paused, total_bytes, session_start, speed_samples,
          data_points, errors, peak_speed, speed_history, baseline_speed,
          throttle_detected, performance_samples, performance_stats,
          url_index, last_save, xfer, pending, mode, data_file, pause_signal,
          resume_signal, downloader_process, alive, launched, sup,
          stop_deadline, then_reset, last_read, last_report, start_result,
          clear_data, now, workload, config,
          websocket_connections, closed, accepted, broadcast,
          fed, orphan_snap, ops, faults, dup, session_reset, stop_seen>>

statsVars == <<total_bytes, speed_samples, data_points, peak_speed,
               speed_history, baseline_speed, throttle_detected,
               performance_samples, performance_stats>>

observerVars == <<websocket_connections, closed, accepted, broadcast>>

\* everything but the observers: the worker, the supervisor, the environment
processVars == <<pc, running, paused, total_bytes, session_start,
                 speed_samples, data_points, errors, peak_speed,
                 speed_history, baseline_speed, throttle_detected,
                 performance_samples, performance_stats, url_index,
                 last_save, xfer, pending, mode, data_file, pause_signal,
                 resume_signal, downloader_process, alive, launched, sup,
                 stop_deadline, then_reset, last_read, last_report,
                 start_result, clear_data, now, workload, config, fed, orphan_snap, ops,
                 faults,
                 dup, session_reset, stop_seen>>

\* no broadcast_to_websockets call has been made
NoBroadcast == [pc |-> "idle", calls |-> 0, targets |-> {}, size |-> 0,
                visited |-> {}, current |-> 0, delivered |-> {},
                disconnected |-> {}]

\* DataCapServer.__init__: self.websocket_connections = set()
ObserversInit ==
  /\ websocket_connections = {}
  /\ closed = {}
  /\ accepted = 0
  /\ broadcast = NoBroadcast

(***************************************************************************)
(* Program constants                                                       *)
(***************************************************************************)
RecentCapacity == 30
PerformanceCapacity == 1000
DataPointCapacity == 1000
HistoryWindowSeconds == 1800
RecentWindowSeconds == 600
MinHistoryEntries == 10
BaselineEntries == 150
MinRecentEntries == 300
ThrottleThresholdPercent == 30
ExpectedSpeed == 60
BytesPerGiB == 1073741824
BytesPerMiB == 1048576
BytesPerMbpsEighth == 16384

(***************************************************************************)
(* Helpers                                                                 *)
(***************************************************************************)
RECURSIVE SumRange(_, _, _)
SumRange(s, lo, hi) ==
  IF lo > hi THEN 0
  ELSE IF lo = hi THEN s[lo].speed
  ELSE LET m == (lo + hi) \div 2 IN SumRange(s, lo, m) + SumRange(s, m + 1, hi)

\* statistics.mean's numerator: the sum of the speeds of a list of entries
SumSpeeds(s) == SumRange(s, 1, Len(s))

\* list[-n:]
LastN(s, n) == IF Len(s) <= n THEN s ELSE SubSeq(s, Len(s) - n + 1, Len(s))

\* PushBounded without the eviction
PushBounded_no_pop(s, x, cap) == Append(s, x)

\* list.append(x) followed by "if len(list) > cap: list.pop(0)"
PushBounded(s, x, cap) ==
  LET a == Append(s, x) IN IF Len(a) > cap THEN Tail(a) ELSE a

CountOf(s, c) == Cardinality({i \in 1..Len(s) : s[i] = c})

NoBaseline == [set |-> FALSE, num |-> 0, den |-> 1]
NoTime == [set |-> FALSE, at |-> 0]

(***************************************************************************)
(* Sample Meter and Rolling Statistics Aggregator                          *)
(***************************************************************************)
\* calculate_speed; t8 is time_taken in eighths of a second.  Exact for the
\* transfers of this model, whose byte counts are multiples of 16384*t8.
calculate_speed(bytes_downloaded, t8) ==
  IF t8 <= 0 THEN 0 ELSE (bytes_downloaded \div BytesPerMbpsEighth) \div t8

\* a categorisation whose close band excludes its two ends
categorize_speed_performance_exclusive(speed_mbps, expected) ==
  IF speed_mbps * 10 <= expected * 8 THEN "far_below_expected"
  ELSE IF speed_mbps * 10 >= expected * 12 THEN "far_above_expected"
  ELSE "close_to_expected"

\* categorize_speed_performance: low = expected*0.8, high = expected*1.2
\* (for expected = 60 the two products are exactly 48.0 and 72.0 in binary
\* floating point, so the comparison of integers is the code's comparison)
categorize_speed_performance(speed_mbps, expected) ==
  IF speed_mbps * 10 < expected * 8 THEN "far_below_expected"
  ELSE IF speed_mbps * 10 > expected * 12 THEN "far_above_expected"
  ELSE "close_to_expected"

\* update_performance_stats: the shares are count/total*100, kept as counts
update_performance_stats(samples, old) ==
  IF Len(samples) = 0 THEN old
  ELSE [close |-> CountOf(samples, "close_to_expected"),
        below |-> CountOf(samples, "far_below_expected"),
        above |-> CountOf(samples, "far_above_expected"),
        total |-> Len(samples)]

(***************************************************************************)
(* Throttle Detector                                                       *)
(***************************************************************************)
\* baseline_speed = statistics.mean(first 150 entries of the history)
EstablishBaseline(hist) ==
  [set |-> TRUE, num |-> SumRange(hist, 1, BaselineEntries), den |-> BaselineEntries]

\* speed < threshold_speed, threshold_speed = baseline * (1 - percent/100)
BelowThreshold(speed, base) ==
  speed * base.den * 100 < base.num * (100 - ThrottleThresholdPercent)

\* ThrottleVerdict without the 80% rule
ThrottleVerdict_mean_only(recent, base) ==
  SumSpeeds(recent) * base.den * 100
    < base.num * (100 - ThrottleThresholdPercent) * Len(recent)

\* recent_avg < threshold_speed and below_threshold_percent >= 0.8
ThrottleVerdict(recent, base) ==
  LET n == Len(recent)
      below == Cardinality({i \in 1..n : BelowThreshold(recent[i].speed, base)})
  IN  /\ SumSpeeds(recent) * base.den * 100
           < base.num * (100 - ThrottleThresholdPercent) * n
      /\ below * 10 >= 8 * n

\* the entries of the last 10 minutes
RecentEntries(hist, t) ==
  SelectSeq(hist, LAMBDA e : e.timestamp > t - RecentWindowSeconds)

\* a history that is never pruned
PruneHistory_keep_all(hist, t) == hist

\* the 30-minute pruning of the history
PruneHistory(hist, t) ==
  SelectSeq(hist, LAMBDA e : e.timestamp > t - HistoryWindowSeconds)

\* detect_throttling clearing the verdict when the last 10 minutes hold
\* fewer than 300 entries
detect_throttling_clears(hist, base, verdict, current_speed, t) ==
  LET h == PruneHistory(Append(hist, [speed |-> current_speed, timestamp |-> t]), t)
      b == IF ~base.set /\ Len(h) >= BaselineEntries
           THEN EstablishBaseline(h) ELSE base
      recent == RecentEntries(h, t)
  IN  IF Len(h) < MinHistoryEntries
      THEN [speed_history |-> h, baseline_speed |-> base, throttle_detected |-> verdict]
      ELSE IF ~b.set \/ b.num <= 0
      THEN [speed_history |-> h, baseline_speed |-> b, throttle_detected |-> verdict]
      ELSE [speed_history |-> h, baseline_speed |-> b,
            throttle_detected |->
              IF Len(recent) >= MinRecentEntries
              THEN ThrottleVerdict(recent, b) ELSE FALSE]

\* detect_throttling without the "baseline_speed is None" test
detect_throttling_rebaseline(hist, base, verdict, current_speed, t) ==
  LET h == PruneHistory(Append(hist, [speed |-> current_speed, timestamp |-> t]), t)
      b == IF Len(h) >= BaselineEntries THEN EstablishBaseline(h) ELSE base
      recent == RecentEntries(h, t)
  IN  IF Len(h) < MinHistoryEntries
      THEN [speed_history |-> h, baseline_speed |-> base, throttle_detected |-> verdict]
      ELSE IF ~b.set \/ b.num <= 0
      THEN [speed_history |-> h, baseline_speed |-> b, throttle_detected |-> verdict]
      ELSE [speed_history |-> h, baseline_speed |-> b,
            throttle_detected |->
              IF Len(recent) >= MinRecentEntries
              THEN ThrottleVerdict(recent, b) ELSE verdict]

\* detect_throttling(current_speed) called at time t; the new values of
\* speed_history, baseline_speed and throttle_detected
detect_throttling(hist, base, verdict, current_speed, t) ==
  LET h == PruneHistory(Append(hist, [speed |-> current_speed, timestamp |-> t]), t)
      b == IF ~base.set /\ Len(h) >= BaselineEntries
           THEN EstablishBaseline(h) ELSE base
      recent == RecentEntries(h, t)
  IN  IF Len(h) < MinHistoryEntries
      THEN [speed_history |-> h, baseline_speed |-> base, throttle_detected |-> verdict]
      ELSE IF ~b.set \/ b.num <= 0
      THEN [speed_history |-> h, baseline_speed |-> b, throttle_detected |-> verdict]
      ELSE [speed_history |-> h, baseline_speed |-> b,
            throttle_detected |->
              IF Len(recent) >= MinRecentEntries
              THEN ThrottleVerdict(recent, b) ELSE verdict]

\* a detector that reports the detection at every update that finds it
throttle_notification_every_update(hist, base, verdict, current_speed, t) ==
  LET h == PruneHistory(Append(hist, [speed |-> current_speed, timestamp |-> t]), t)
      b == IF ~base.set /\ Len(h) >= BaselineEntries
           THEN EstablishBaseline(h) ELSE base
      recent == RecentEntries(h, t)
  IN  IF Len(h) < MinHistoryEntries \/ ~b.set \/ b.num <= 0
         \/ Len(recent) < MinRecentEntries
      THEN "none"
      ELSE IF ThrottleVerdict(recent, b)
      THEN "detected"
      ELSE IF verdict THEN "ended" ELSE "none"

\* detect_throttling, lines 241-248: the state-change message the call logs,
\* "detected" (line 243), "ended" (line 247) or none
throttle_notification(hist, base, verdict, current_speed, t) ==
  LET h == PruneHistory(Append(hist, [speed |-> current_speed, timestamp |-> t]), t)
      b == IF ~base.set /\ Len(h) >= BaselineEntries
           THEN EstablishBaseline(h) ELSE base
      recent == RecentEntries(h, t)
  IN  IF Len(h) < MinHistoryEntries \/ ~b.set \/ b.num <= 0
         \/ Len(recent) < MinRecentEntries
      THEN "none"
      ELSE IF ThrottleVerdict(recent, b)
      THEN IF ~verdict THEN "detected" ELSE "none"
      ELSE IF verdict THEN "ended" ELSE "none"

\* update_statistics(speed_mbps) called at time t with total_bytes = total
update_statistics(speed_mbps, total, t) ==
  LET category == categorize_speed_performance(speed_mbps, ExpectedSpeed)
      samples == PushBounded(performance_samples, category, PerformanceCapacity)
      point == [timestamp |-> t, speed_mbps |-> speed_mbps, total_bytes |-> total,
                performance_category |-> category, expected_speed |-> ExpectedSpeed]
      d == detect_throttling(speed_history, baseline_speed, throttle_detected,
                             speed_mbps, t)
  IN  [speed_samples |-> PushBounded(speed_samples, speed_mbps, RecentCapacity),
       peak_speed |-> IF speed_mbps > peak_speed THEN speed_mbps ELSE peak_speed,
       performance_samples |-> samples,
       performance_stats |-> update_performance_stats(samples, performance_stats),
       data_points |-> PushBounded(data_points, point, DataPointCapacity),
       speed_history |-> d.speed_history,
       baseline_speed |-> d.baseline_speed,
       throttle_detected |-> d.throttle_detected]

\* run_download_loop, lines 382-385: a transfer that returned bytes > 0
AccountTransfer(bytes_downloaded, t8, t) ==
  LET total == total_bytes + bytes_downloaded
      u == update_statistics(calculate_speed(bytes_downloaded, t8), total, t)
  IN  /\ total_bytes' = total
      /\ speed_samples' = u.speed_samples
      /\ peak_speed' = u.peak_speed
      /\ performance_samples' = u.performance_samples
      /\ performance_stats' = u.performance_stats
      /\ data_points' = u.data_points
      /\ speed_history' = u.speed_history
      /\ baseline_speed' = u.baseline_speed
      /\ throttle_detected' = u.throttle_detected

(***************************************************************************)
(* Initial values                                                          *)
(***************************************************************************)
\* the locals of an iteration: url (its position in test_urls) and
\* download_count of run_download_loop, and the transfer in progress
NoXfer == [url |-> 0, download_count |-> 0,
           rate |-> 0, bytes |-> 0, start |-> 0, stall |-> 0]
\* load_config, lines 79-84: the configuration used when config.json cannot
\* be read: one test url, a cap of 50 GB
DefaultConfig == [test_urls |-> 1, data_cap_gb |-> 50]
NoStats == [close |-> 0, below |-> 0, above |-> 0, total |-> 0]
\* reset_data of reset_stats: the snapshot without the keys baseline_speed,
\* speed_history and performance_stats (full = FALSE)
NoSnap == [full |-> FALSE, status |-> "stopped", total_gb |-> 0,
           session_duration |-> 0, peak_speed |-> 0, throttle_detected |-> FALSE,
           baseline_speed |-> 0, data_points |-> <<>>, errors |-> <<>>,
           speed_history |-> <<>>, performance_stats |-> NoStats]
NoDup == [pause |-> FALSE, resume |-> FALSE]
NoStop == [requested |-> FALSE, saved |-> FALSE, done |-> FALSE]
NoFile == [state |-> "absent", snap |-> NoSnap]
NoWorkload == [blocks |-> <<>>, period |-> 0]

\* DownloadTester.__init__, lines 35-62: the fields of a new worker object
FreshWorkerFields ==
  /\ running = FALSE
  /\ paused = FALSE
  /\ total_bytes = 0
  /\ session_start = NoTime
  /\ speed_samples = <<>>
  /\ data_points = <<>>
  /\ errors = <<>>
  /\ peak_speed = 0
  /\ speed_history = <<>>
  /\ baseline_speed = NoBaseline
  /\ throttle_detected = FALSE
  /\ performance_samples = <<>>
  /\ performance_stats = NoStats

(***************************************************************************)
(* Session State & Persistence                                             *)
(***************************************************************************)
\* Python's round(): n/d rounded to the nearest integer, ties to even
RoundHalfEven(n, d) ==
  LET q == n \div d
      r == n % d
  IN  IF 2 * r < d THEN q
      ELSE IF 2 * r > d THEN q + 1
      ELSE IF q % 2 = 0 THEN q ELSE q + 1

\* round(total_bytes / 1024**3, 3), in thousandths of a GiB.  total*1000 is
\* split as a1 + n/2^30 so that no intermediate value passes 2^31.
GbThousandths(total) ==
  LET m == total \div BytesPerMiB
      r == total % BytesPerMiB
      a1 == (1000 * m) \div 1024
      a2 == (1000 * m) % 1024
      n == a2 * BytesPerMiB + r * 1000
      q == n \div BytesPerGiB
      rem == n % BytesPerGiB
      half == BytesPerGiB \div 2
  IN  IF rem < half THEN a1 + q
      ELSE IF rem > half THEN a1 + q + 1
      ELSE IF (a1 + q) % 2 = 0 THEN a1 + q ELSE a1 + q + 1

\* a conversion that drops the fraction of 1073741.824 bytes per thousandth
BytesOfThousandths_truncated(k) == k * 1073741

\* int(prev_gb * 1024**3) for prev_gb = k thousandths: floor(k * 1073741.824)
BytesOfThousandths(k) == k * 1073741 + (k * 824) \div 1000

\* round(self.baseline_speed or 0, 2), in hundredths of a Mbps
BaselineHundredths(base) ==
  IF ~base.set THEN 0 ELSE RoundHalfEven(100 * base.num, base.den)

\* round(share, 1) of the three shares, in tenths of a percent
RoundedStats(st) ==
  IF st.total = 0 THEN [close |-> 0, below |-> 0, above |-> 0, total |-> 1000]
  ELSE [close |-> RoundHalfEven(1000 * st.close, st.total),
        below |-> RoundHalfEven(1000 * st.below, st.total),
        above |-> RoundHalfEven(1000 * st.above, st.total),
        total |-> 1000]

\* the status save_data writes
StatusOf(isPaused, isRunning) ==
  IF isPaused THEN "paused" ELSE IF isRunning THEN "running" ELSE "stopped"

\* save_data, lines 253-303: the snapshot built at time t
Snapshot(t) ==
  [full |-> TRUE,
   status |-> StatusOf(paused, running),
   total_gb |-> GbThousandths(total_bytes),
   session_duration |-> IF session_start.set THEN t - session_start.at ELSE 0,
   peak_speed |-> peak_speed,
   throttle_detected |-> throttle_detected,
   baseline_speed |-> BaselineHundredths(baseline_speed),
   data_points |-> LastN(data_points, 100),
   errors |-> LastN(errors, 10),
   speed_history |-> LastN(speed_history, 100),
   performance_stats |-> RoundedStats(performance_stats)]

\* the categories embedded in a list of data points
CategoriesOf(points) == [i \in 1..Len(points) |-> points[i].performance_category]

\* a load that takes the window from every data point the snapshot holds
Restored_whole_window(s, t) ==
  [total_bytes |-> BytesOfThousandths(s.total_gb),
   peak_speed |-> s.peak_speed,
   data_points |-> LastN(s.data_points, 50),
   errors |-> s.errors,
   baseline_speed |-> IF s.full
                      THEN [set |-> TRUE, num |-> s.baseline_speed, den |-> 100]
                      ELSE NoBaseline,
   throttle_detected |-> s.throttle_detected,
   speed_history |-> s.speed_history,
   performance_stats |-> IF s.full THEN s.performance_stats ELSE NoStats,
   performance_samples |-> CategoriesOf(s.data_points),
   session_start |-> [set |-> TRUE, at |-> t - s.session_duration]]

\* load_previous_state, lines 412-445: the fields restored from snapshot s at
\* time t (a snapshot without the key baseline_speed restores None)
Restored(s, t) ==
  [total_bytes |-> BytesOfThousandths(s.total_gb),
   peak_speed |-> s.peak_speed,
   data_points |-> LastN(s.data_points, 50),
   errors |-> s.errors,
   baseline_speed |-> IF s.full
                      THEN [set |-> TRUE, num |-> s.baseline_speed, den |-> 100]
                      ELSE NoBaseline,
   throttle_detected |-> s.throttle_detected,
   speed_history |-> s.speed_history,
   performance_stats |-> IF s.full THEN s.performance_stats ELSE NoStats,
   performance_samples |-> CategoriesOf(LastN(s.data_points, 50)),
   session_start |-> [set |-> TRUE, at |-> t - s.session_duration]]

(***************************************************************************)
(* SpecStats: one fresh worker measuring a workload.  The network delivers *)
(* the speeds of the workload, block by block, one sample every            *)
(* workload.period seconds, then up to MaxFree samples of any speed after  *)
(* any gap.                                                                *)
(***************************************************************************)
MaxFree == 2
Speeds == {50, 100}
Gaps == {2, 601}

Block(n, v) == [n |-> n, v |-> v]
Workloads ==
  { [blocks |-> <<Block(1001, 10)>>, period |-> 2],
    [blocks |-> <<Block(150, 100), Block(300, 50)>>, period |-> 2],
    [blocks |-> <<Block(150, 100), Block(100, 70), Block(200, 50)>>, period |-> 2],
    [blocks |-> <<Block(150, 100), Block(60, 200), Block(240, 60)>>, period |-> 2],
    [blocks |-> <<Block(150, 100), Block(60, 70), Block(240, 50)>>, period |-> 2],
    [blocks |-> <<Block(1, 45), Block(1, 48), Block(1, 60), Block(1, 72),
                  Block(1, 75)>>, period |-> 2] }

RECURSIVE WorkloadLen(_)
WorkloadLen(blocks) ==
  IF blocks = <<>> THEN 0 ELSE Head(blocks).n + WorkloadLen(Tail(blocks))

\* the speed of sample number k (1-based) of a workload
RECURSIVE WorkloadSpeed(_, _)
WorkloadSpeed(blocks, k) ==
  IF k <= Head(blocks).n THEN Head(blocks).v
  ELSE WorkloadSpeed(Tail(blocks), k - Head(blocks).n)

InitStats ==
  /\ pc = "loop"
  /\ running = TRUE
  /\ paused = FALSE
  /\ total_bytes = 0
  /\ session_start = [set |-> TRUE, at |-> 0]
  /\ speed_samples = <<>>
  /\ data_points = <<>>
  /\ errors = <<>>
  /\ peak_speed = 0
  /\ speed_history = <<>>
  /\ baseline_speed = NoBaseline
  /\ throttle_detected = FALSE
  /\ performance_samples = <<>>
  /\ performance_stats = NoStats
  /\ url_index = 0
  /\ last_save = 0
  /\ xfer = NoXfer
  /\ pending = NoSnap
  /\ data_file = NoFile
  /\ pause_signal = FALSE
  /\ resume_signal = FALSE
  /\ downloader_process = 1
  /\ alive = {1}
  /\ launched = 1
  /\ sup = "idle"
  /\ stop_deadline = 0
  /\ mode = "fresh"
  /\ then_reset = FALSE
  /\ last_read = "none"
  /\ last_report = "none"
  /\ start_result = "none"
  /\ now = 0
  /\ workload \in Workloads
  /\ ObserversInit
  /\ config = DefaultConfig
  /\ clear_data = NoSnap
  /\ fed = 0
  /\ orphan_snap = NoSnap
  /\ ops = 1
  /\ faults = 0
  /\ dup = NoDup
  /\ session_reset = FALSE
  /\ stop_seen = NoStop

nonStatsVars == <<pc, running, paused, session_start, errors, last_save, xfer,
                  pending, mode, data_file, pause_signal, resume_signal,
                  downloader_process, alive, launched, sup, stop_deadline,
                  then_reset, last_read, last_report, start_result, workload, config, observerVars, clear_data, orphan_snap,
                  ops, faults, dup, session_reset, stop_seen>>

\* One loop iteration whose transfer delivered the next sample of the
\* workload in one eighth of a second (run_download_loop, lines 371-385).
Measure ==
  /\ pc = "loop" /\ running /\ ~paused
  /\ fed < WorkloadLen(workload.blocks)
  /\ LET v == WorkloadSpeed(workload.blocks, fed + 1)
     IN  AccountTransfer(BytesPerMbpsEighth * v, 1, now + workload.period)
  /\ now' = now + workload.period
  /\ fed' = fed + 1
  /\ url_index' = url_index + 1
  /\ UNCHANGED nonStatsVars

\* One loop iteration after the workload: any speed, after any gap.
MeasureFree ==
  /\ pc = "loop" /\ running /\ ~paused
  /\ fed >= WorkloadLen(workload.blocks)
  /\ fed < WorkloadLen(workload.blocks) + MaxFree
  /\ \E v \in Speeds, gap \in Gaps :
        /\ AccountTransfer(BytesPerMbpsEighth * v, 1, now + gap)
        /\ now' = now + gap
  /\ fed' = fed + 1
  /\ url_index' = url_index + 1
  /\ UNCHANGED nonStatsVars

NextStats == Measure \/ MeasureFree

SpecStats == InitStats /\ [][NextStats]_vars

(***************************************************************************)
(* Spec: the supervisor and the workers it launches.  Start, stop, reset    *)
(* and load_data are called in any order (at most MaxOps calls; pause and  *)
(* resume are exercised on one worker in SpecSignals, below); time         *)
(* passes, one second per Tick, only while every process that is alive is  *)
(* blocked (in a transfer, in a sleep, in wait(timeout)).  The Unix        *)
(* branches of server.py are modelled (os.name != 'nt').                   *)
(***************************************************************************)
MaxTime == 9
MaxOps == 3
MaxFaults == 1
MaxIterations == 2
MaxErrors == 11
MaxStream == 2
Rates == {0, 4}

ChunkCapBytes == 104857600
BytesPerMbpsSecond == 131072
UpdateIntervalSeconds == 2
StopTimeoutSeconds == 8
ReadTimeoutSeconds == 30

Torn == [state |-> "torn", snap |-> NoSnap]
Complete(snap) == [state |-> "complete", snap |-> snap]
\* a file that parses as JSON and holds snap, with one more speed_history
\* entry that load_previous_state cannot convert (lines 425-429: no "speed"
\* key, or a timestamp that datetime.fromisoformat rejects)
Malformed(snap) == [state |-> "malformed", snap |-> snap]

\* the child the worker variables describe is a live process
Tracked == pc \notin {"none", "exited", "killed"}
\* children still alive that the worker variables do not describe
Orphans == IF Tracked THEN alive \ {launched} ELSE alive
\* a liveness check that trusts the handle and does not poll the child
ChildAlive_handle_only == downloader_process # 0
\* a liveness check that always reports "not running"
ChildAlive_never_running == FALSE
\* self.downloader_process.poll() is None
ChildAlive == downloader_process # 0 /\ downloader_process \in alive
\* a liveness check that keeps the handle of a child that has exited
HandleAfterCheck_kept == downloader_process
\* is_downloader_running: the handle after the call
HandleAfterCheck == IF ChildAlive THEN downloader_process ELSE 0

\* a stop_downloader that returns without clearing the handle
HandleAfterStop_kept == downloader_process
\* stop_downloader, lines 195 and 200: self.downloader_process = None
HandleAfterStop == 0

MayFail == IF faults < MaxFaults THEN {TRUE, FALSE} ELSE {TRUE}

MarkSaved == IF stop_seen.requested THEN [stop_seen EXCEPT !.saved = TRUE] ELSE stop_seen

InitSpec ==
  /\ FreshWorkerFields
  /\ pc = "none"
  /\ url_index = 0
  /\ last_save = 0
  /\ xfer = NoXfer
  /\ pending = NoSnap
  /\ mode = "fresh"
  /\ data_file = NoFile
  /\ pause_signal = FALSE
  /\ resume_signal = FALSE
  /\ downloader_process = 0
  /\ alive = {}
  /\ launched = 0
  /\ sup = "idle"
  /\ stop_deadline = 0
  /\ then_reset = FALSE
  /\ last_read = "none"
  /\ last_report = "none"
  /\ start_result = "none"
  /\ now = 0
  /\ workload = NoWorkload
  /\ ObserversInit
  /\ config = DefaultConfig
  /\ clear_data = NoSnap
  /\ fed = 0
  /\ orphan_snap = NoSnap
  /\ ops = 0
  /\ faults = 0
  /\ dup = NoDup
  /\ session_reset = FALSE
  /\ stop_seen = NoStop

supVars == <<downloader_process, alive, launched, sup, stop_deadline, then_reset,
             last_read, last_report, start_result, ops>>
signalVars == <<pause_signal, resume_signal, dup>>
envVars == <<now, workload, config, observerVars, clear_data, orphan_snap, faults, session_reset>>

(***************************************************************************)
(* Worker Control Loop                                                     *)
(***************************************************************************)
\* a load_previous_state that leaves session_start unset without a snapshot
SessionStartWithoutSnapshot_unset(resume, t) == NoTime

\* load_previous_state, lines 455-462: no snapshot, or one that does not
\* parse: session_start = now (a fresh launch leaves it None)
SessionStartWithoutSnapshot(resume, t) ==
  IF resume THEN [set |-> TRUE, at |-> t] ELSE NoTime

\* DownloadTester.__init__: the fields, load_previous_state when resuming,
\* and the signal handlers (installed last)
WConstruct ==
  /\ pc = "starting"
  /\ pc' = "constructed"
  /\ running' = FALSE
  /\ paused' = FALSE
  /\ IF mode = "resume" /\ data_file.state = "complete"
     THEN LET r == Restored(data_file.snap, now)
          IN  /\ total_bytes' = r.total_bytes
              /\ peak_speed' = r.peak_speed
              /\ data_points' = r.data_points
              /\ errors' = r.errors
              /\ baseline_speed' = r.baseline_speed
              /\ throttle_detected' = r.throttle_detected
              /\ speed_history' = r.speed_history
              /\ performance_stats' = r.performance_stats
              /\ performance_samples' = r.performance_samples
              /\ session_start' = r.session_start
              /\ speed_samples' = <<>>
     ELSE IF mode = "resume" /\ data_file.state = "malformed"
     THEN \* lines 413-429 ran up to the entry that raises; lines 461-462
          LET r == Restored(data_file.snap, now)
          IN  /\ total_bytes' = r.total_bytes
              /\ peak_speed' = r.peak_speed
              /\ data_points' = r.data_points
              /\ errors' = r.errors
              /\ baseline_speed' = r.baseline_speed
              /\ throttle_detected' = r.throttle_detected
              /\ \E k \in 0..Len(r.speed_history) :
                    speed_history' = SubSeq(r.speed_history, 1, k)
              /\ performance_stats' = NoStats
              /\ performance_samples' = <<>>
              /\ speed_samples' = <<>>
              /\ session_start' = SessionStartWithoutSnapshot(TRUE, now)
     ELSE /\ total_bytes' = 0
          /\ peak_speed' = 0
          /\ data_points' = <<>>
          /\ errors' = <<>>
          /\ baseline_speed' = NoBaseline
          /\ throttle_detected' = FALSE
          /\ speed_history' = <<>>
          /\ performance_stats' = NoStats
          /\ performance_samples' = <<>>
          /\ speed_samples' = <<>>
          /\ session_start' = SessionStartWithoutSnapshot(mode = "resume", now)
  /\ session_reset' = FALSE
  /\ UNCHANGED <<url_index, last_save, xfer, pending, mode, data_file, fed,
                 now, workload, config, observerVars, clear_data, orphan_snap, faults, stop_seen>>
  /\ UNCHANGED signalVars
  /\ UNCHANGED supVars

\* a prologue that stamps session_start at every entry of the loop
WEnterLoop_restamps ==
  /\ pc = "constructed"
  /\ pc' = "loop"
  /\ running' = TRUE
  /\ session_start' = [set |-> TRUE, at |-> now]
  /\ url_index' = 0
  /\ xfer' = NoXfer
  /\ last_save' = now
  /\ UNCHANGED <<paused, errors, pending, mode, data_file, fed, stop_seen>>
  /\ UNCHANGED statsVars
  /\ UNCHANGED signalVars
  /\ UNCHANGED supVars
  /\ UNCHANGED envVars

\* run_download_loop, lines 328-350
WEnterLoop ==
  /\ pc = "constructed"
  /\ pc' = "loop"
  /\ running' = TRUE
  /\ session_start' = IF session_start.set THEN session_start
                      ELSE [set |-> TRUE, at |-> now]
  /\ url_index' = 0
  /\ xfer' = NoXfer
  /\ last_save' = now
  /\ UNCHANGED <<paused, errors, pending, mode, data_file, fed, stop_seen>>
  /\ UNCHANGED statsVars
  /\ UNCHANGED signalVars
  /\ UNCHANGED supVars
  /\ UNCHANGED envVars

\* a rotation that does not wrap around the list
NextUrl_unwrapped(index, n) == index

\* run_download_loop, line 373: the position in test_urls of the url taken
\* when url_index = index and the list has n entries
NextUrl(index, n) == index % n

\* check_pause_resume: the flag and the two signal files after the call
check_pause_resume ==
  LET takePause == pause_signal /\ ~paused
      p1 == IF takePause THEN TRUE ELSE paused
      takeResume == resume_signal /\ p1
  IN  [paused |-> IF takeResume THEN FALSE ELSE p1,
       pause_signal |-> IF takePause THEN FALSE ELSE pause_signal,
       resume_signal |-> IF takeResume THEN FALSE ELSE resume_signal]

\* a loop whose paused iteration takes the next url of the rotation
WLoopTop_consumes_slot ==
  /\ pc = "loop"
  /\ IF ~running
     THEN /\ pc' = "final1"
          /\ pending' = Snapshot(now)
          /\ data_file' = Torn
          /\ UNCHANGED <<paused, pause_signal, resume_signal, dup, url_index, xfer>>
     ELSE LET c == check_pause_resume
          IN  /\ paused' = c.paused
              /\ pause_signal' = c.pause_signal
              /\ resume_signal' = c.resume_signal
              /\ dup' = [pause |-> dup.pause /\ c.pause_signal,
                         resume |-> dup.resume /\ c.resume_signal]
              /\ UNCHANGED <<pending, data_file>>
              /\ IF c.paused
                 THEN /\ pc' = "pausedsleep"
                      /\ url_index' = url_index + 1
                      /\ UNCHANGED xfer
                 ELSE /\ url_index < MaxIterations
                      /\ pc' = "transfer"
                      /\ url_index' = url_index + 1
                      /\ \E r \in Rates :
                            xfer' = [url |-> NextUrl(url_index, config.test_urls),
                                     download_count |-> xfer.download_count + 1,
                                     rate |-> r, bytes |-> 0, start |-> now,
                                     stall |-> 0]
  /\ UNCHANGED <<running, session_start, errors, last_save, mode, fed, stop_seen>>
  /\ UNCHANGED statsVars
  /\ UNCHANGED supVars
  /\ UNCHANGED envVars

\* a loop that tests the running flag only in iterations that are not paused
WLoopTop_paused_never_leaves ==
  /\ pc = "loop"
  /\ IF ~running /\ ~paused
     THEN /\ pc' = "final1"
          /\ pending' = Snapshot(now)
          /\ data_file' = Torn
          /\ UNCHANGED <<paused, pause_signal, resume_signal, dup, url_index, xfer>>
     ELSE LET c == check_pause_resume
          IN  /\ paused' = c.paused
              /\ pause_signal' = c.pause_signal
              /\ resume_signal' = c.resume_signal
              /\ dup' = [pause |-> dup.pause /\ c.pause_signal,
                         resume |-> dup.resume /\ c.resume_signal]
              /\ UNCHANGED <<pending, data_file>>
              /\ IF c.paused
                 THEN /\ pc' = "pausedsleep"
                      /\ UNCHANGED <<url_index, xfer>>
                 ELSE /\ url_index < MaxIterations
                      /\ pc' = "transfer"
                      /\ url_index' = url_index + 1
                      /\ \E r \in Rates :
                            xfer' = [url |-> NextUrl(url_index, config.test_urls),
                                     download_count |-> xfer.download_count + 1,
                                     rate |-> r, bytes |-> 0, start |-> now,
                                     stall |-> 0]
  /\ UNCHANGED <<running, session_start, errors, last_save, mode, fed, stop_seen>>
  /\ UNCHANGED statsVars
  /\ UNCHANGED supVars
  /\ UNCHANGED envVars

\* run_download_loop, lines 362-365: total_gb >= data_cap
CapReached == total_bytes >= config.data_cap_gb * BytesPerGiB

\* a loop that ends when the data cap is reached
WLoopTop_stops_at_cap ==
  /\ pc = "loop"
  /\ IF ~running \/ CapReached
     THEN /\ pc' = "final1"
          /\ pending' = Snapshot(now)
          /\ data_file' = Torn
          /\ UNCHANGED <<paused, pause_signal, resume_signal, dup, url_index, xfer>>
     ELSE LET c == check_pause_resume
          IN  /\ paused' = c.paused
              /\ pause_signal' = c.pause_signal
              /\ resume_signal' = c.resume_signal
              /\ dup' = [pause |-> dup.pause /\ c.pause_signal,
                         resume |-> dup.resume /\ c.resume_signal]
              /\ UNCHANGED <<pending, data_file>>
              /\ IF c.paused
                 THEN /\ pc' = "pausedsleep"
                      /\ UNCHANGED <<url_index, xfer>>
                 ELSE /\ url_index < MaxIterations
                      /\ pc' = "transfer"
                      /\ url_index' = url_index + 1
                      /\ \E r \in Rates :
                            xfer' = [url |-> NextUrl(url_index, config.test_urls),
                                     download_count |-> xfer.download_count + 1,
                                     rate |-> r, bytes |-> 0, start |-> now,
                                     stall |-> 0]
  /\ UNCHANGED <<running, session_start, errors, last_save, mode, fed, stop_seen>>
  /\ UNCHANGED statsVars
  /\ UNCHANGED supVars
  /\ UNCHANGED envVars

\* The top of one iteration, lines 352-380: leave the loop when running is
\* false (and begin the final save of line 401); otherwise poll the
\* signals, then idle when paused or start the transfer to the next url
\* (the monitoring of the data cap, lines 362-369, only logs).  At most limit
\* transfers are followed.
WLoopTopUpTo(limit) ==
  /\ pc = "loop"
  /\ IF ~running
     THEN /\ pc' = "final1"
          /\ pending' = Snapshot(now)
          /\ data_file' = Torn
          /\ UNCHANGED <<paused, pause_signal, resume_signal, dup, url_index, xfer>>
     ELSE LET c == check_pause_resume
          IN  /\ paused' = c.paused
              /\ pause_signal' = c.pause_signal
              /\ resume_signal' = c.resume_signal
              /\ dup' = [pause |-> dup.pause /\ c.pause_signal,
                         resume |-> dup.resume /\ c.resume_signal]
              /\ UNCHANGED <<pending, data_file>>
              /\ IF c.paused
                 THEN /\ pc' = "pausedsleep"
                      /\ UNCHANGED <<url_index, xfer>>
                 ELSE /\ url_index < limit
                      /\ pc' = "transfer"
                      /\ url_index' = url_index + 1
                      /\ \E r \in Rates :
                            xfer' = [url |-> NextUrl(url_index, config.test_urls),
                                     download_count |-> xfer.download_count + 1,
                                     rate |-> r, bytes |-> 0, start |-> now,
                                     stall |-> 0]
  /\ UNCHANGED <<running, session_start, errors, last_save, mode, fed, stop_seen>>
  /\ UNCHANGED statsVars
  /\ UNCHANGED supVars
  /\ UNCHANGED envVars

WLoopTop == WLoopTopUpTo(MaxIterations)

\* download_chunk, lines 101-103: a chunk arrives and running is false
WBreak ==
  /\ pc = "transfer"
  /\ xfer.rate > 0
  /\ ~running \/ paused
  /\ pc' = "after"
  /\ UNCHANGED <<running, paused, session_start, errors, url_index, last_save,
                 xfer, pending, mode, data_file, fed, stop_seen>>
  /\ UNCHANGED statsVars
  /\ UNCHANGED signalVars
  /\ UNCHANGED supVars
  /\ UNCHANGED envVars

\* download_chunk: the response ends, after at least one second of chunks
WStreamEnd ==
  /\ pc = "transfer"
  /\ xfer.rate > 0
  /\ now > xfer.start
  /\ pc' = "after"
  /\ UNCHANGED <<running, paused, session_start, errors, url_index, last_save,
                 xfer, pending, mode, data_file, fed, stop_seen>>
  /\ UNCHANGED statsVars
  /\ UNCHANGED signalVars
  /\ UNCHANGED supVars
  /\ UNCHANGED envVars

\* a transfer failure that ends the loop
WTransferError_fatal ==
  /\ pc = "transfer"
  /\ Len(errors) < MaxErrors
  /\ errors' = Append(errors, [timestamp |-> now, url |-> url_index])
  /\ pc' = "loop"
  /\ running' = FALSE
  /\ UNCHANGED <<paused, session_start, url_index, last_save,
                 xfer, pending, mode, data_file, fed, stop_seen>>
  /\ UNCHANGED statsVars
  /\ UNCHANGED signalVars
  /\ UNCHANGED supVars
  /\ UNCHANGED envVars

\* download_chunk, lines 110-116: the transport raises: the connection or
\* the HTTP status fails at once, a stalled read times out after 30 s, or
\* the connection breaks at the end of a second of streaming
WTransferError ==
  /\ pc = "transfer"
  /\ Len(errors) < MaxErrors
  /\ \/ now = xfer.start
     \/ xfer.rate = 0 /\ xfer.stall = ReadTimeoutSeconds
     \/ xfer.rate > 0 /\ now - xfer.start = MaxStream
  /\ errors' = Append(errors, [timestamp |-> now, url |-> url_index])
  /\ pc' = "after"
  /\ UNCHANGED <<running, paused, session_start, url_index, last_save,
                 xfer, pending, mode, data_file, fed, stop_seen>>
  /\ UNCHANGED statsVars
  /\ UNCHANGED signalVars
  /\ UNCHANGED supVars
  /\ UNCHANGED envVars

\* an accounting that also feeds the transfers that returned no bytes
WAfter_counts_empty ==
  /\ pc = "after"
  /\ IF xfer.bytes >= 0
     THEN /\ AccountTransfer(xfer.bytes, 8 * (now - xfer.start), now)
          /\ fed' = fed + 1
     ELSE /\ UNCHANGED statsVars
          /\ fed' = fed
  /\ UNCHANGED <<running, paused, session_start, errors, url_index, xfer, mode,
                 stop_seen>>
  /\ UNCHANGED signalVars
  /\ UNCHANGED supVars
  /\ UNCHANGED <<now, workload, config, observerVars, clear_data, orphan_snap, session_reset>>
  /\ IF now - last_save >= UpdateIntervalSeconds
     THEN \E ok \in MayFail :
            IF ok
            THEN /\ pc' = "saving"
                 /\ pending' = Snapshot(now)'
                 /\ data_file' = Torn
                 /\ UNCHANGED <<last_save, faults>>
            ELSE \* open() raises: logged, the loop goes on
                 /\ pc' = "loop"
                 /\ last_save' = now
                 /\ faults' = faults + 1
                 /\ UNCHANGED <<pending, data_file>>
     ELSE /\ pc' = "loop"
          /\ UNCHANGED <<pending, data_file, last_save, faults>>

\* lines 380-398: account the transfer, then save when the reporting
\* interval has passed (save_data opens data.json for writing, which
\* truncates it, and then writes the snapshot: WSaveEnd)
WAfter ==
  /\ pc = "after"
  /\ IF xfer.bytes > 0
     THEN /\ AccountTransfer(xfer.bytes, 8 * (now - xfer.start), now)
          /\ fed' = fed + 1
     ELSE /\ UNCHANGED statsVars
          /\ fed' = fed
  /\ UNCHANGED <<running, paused, session_start, errors, url_index, xfer, mode,
                 stop_seen>>
  /\ UNCHANGED signalVars
  /\ UNCHANGED supVars
  /\ UNCHANGED <<now, workload, config, observerVars, clear_data, orphan_snap, session_reset>>
  /\ IF now - last_save >= UpdateIntervalSeconds
     THEN \E ok \in MayFail :
            IF ok
            THEN /\ pc' = "saving"
                 /\ pending' = Snapshot(now)'
                 /\ data_file' = Torn
                 /\ UNCHANGED <<last_save, faults>>
            ELSE \* open() raises: logged, the loop goes on
                 /\ pc' = "loop"
                 /\ last_save' = now
                 /\ faults' = faults + 1
                 /\ UNCHANGED <<pending, data_file>>
     ELSE /\ pc' = "loop"
          /\ UNCHANGED <<pending, data_file, last_save, faults>>

\* save_data, lines 306-307 completed; lines 394-398
WSaveEnd ==
  /\ pc = "saving"
  /\ pc' = "loop"
  /\ data_file' = Complete(pending)
  /\ last_save' = now
  /\ stop_seen' = MarkSaved
  /\ UNCHANGED <<running, paused, session_start, errors, url_index, xfer,
                 pending, mode, fed>>
  /\ UNCHANGED statsVars
  /\ UNCHANGED signalVars
  /\ UNCHANGED supVars
  /\ UNCHANGED envVars

\* the final save of line 401 completes; main()'s finally clause sets
\* running = False and begins save_data again (lines 478-479)
WFinalResave ==
  /\ pc = "final1"
  /\ pc' = "final2"
  /\ running' = FALSE
  /\ pending' = Snapshot(now)
  /\ data_file' = Torn
  /\ stop_seen' = MarkSaved
  /\ UNCHANGED <<paused, session_start, errors, url_index, last_save, xfer,
                 mode, fed>>
  /\ UNCHANGED statsVars
  /\ UNCHANGED signalVars
  /\ UNCHANGED supVars
  /\ UNCHANGED envVars

\* the save of main()'s finally clause completes and the process exits
WExit ==
  /\ pc = "final2"
  /\ pc' = "exited"
  /\ data_file' = Complete(pending)
  /\ alive' = alive \ {launched}
  /\ stop_seen' = MarkSaved
  /\ UNCHANGED <<running, paused, session_start, errors, url_index, last_save,
                 xfer, pending, mode, fed>>
  /\ UNCHANGED statsVars
  /\ UNCHANGED signalVars
  /\ UNCHANGED <<downloader_process, launched, sup, stop_deadline, then_reset,
                 last_read, last_report, start_result, ops>>
  /\ UNCHANGED envVars

\* the worker process dies without running any of its code (killed from
\* outside, out of memory)
WCrash ==
  /\ Tracked
  /\ faults < MaxFaults
  /\ faults' = faults + 1
  /\ pc' = "killed"
  /\ alive' = alive \ {launched}
  /\ UNCHANGED <<running, paused, session_start, errors, url_index, last_save,
                 xfer, pending, mode, data_file, fed, stop_seen>>
  /\ UNCHANGED statsVars
  /\ UNCHANGED signalVars
  /\ UNCHANGED <<downloader_process, launched, sup, stop_deadline, then_reset,
                 last_read, last_report, start_result, ops>>
  /\ UNCHANGED <<now, workload, config, observerVars, clear_data, orphan_snap, session_reset>>

(***************************************************************************)
(* Time                                                                    *)
(***************************************************************************)
\* the worker is blocked: streaming or stalled in a transfer, or asleep
\* while paused (a response streams for at most MaxStream seconds)
WorkerBlocked ==
  \/ pc = "pausedsleep"
  \/ /\ pc = "transfer" /\ xfer.rate > 0 /\ running /\ ~paused
     /\ now - xfer.start < MaxStream
  \/ pc = "transfer" /\ xfer.rate = 0 /\ xfer.stall < ReadTimeoutSeconds

\* One second passes.  A streaming transfer receives one second of chunks
\* (download_chunk, lines 101-108); asyncio.sleep(1) of a paused worker ends.
\* The clock is followed up to MaxTime; beyond it only the sleeps of a
\* paused worker go on, which read no clock.
Tick ==
  /\ now < MaxTime \/ pc = "pausedsleep"
  /\ WorkerBlocked
  /\ sup = "idle" \/ (sup = "stop_wait" /\ ChildAlive /\ now < stop_deadline)
  /\ now' = IF now < MaxTime THEN now + 1 ELSE now
  /\ IF pc = "transfer" /\ xfer.rate > 0
     THEN LET b == xfer.bytes + xfer.rate * BytesPerMbpsSecond
          IN  /\ xfer' = [xfer EXCEPT !.bytes = b]
              /\ pc' = IF b >= ChunkCapBytes THEN "after" ELSE pc
     ELSE IF pc = "transfer"
     THEN /\ xfer' = [xfer EXCEPT !.stall = xfer.stall + 1]
          /\ pc' = pc
     ELSE IF pc = "pausedsleep"
     THEN /\ pc' = "loop"
          /\ xfer' = xfer
     ELSE UNCHANGED <<pc, xfer>>
  /\ UNCHANGED <<running, paused, session_start, errors, url_index, last_save,
                 pending, mode, data_file, fed, stop_seen>>
  /\ UNCHANGED statsVars
  /\ UNCHANGED signalVars
  /\ UNCHANGED supVars
  /\ UNCHANGED <<workload, config, observerVars, clear_data, orphan_snap, faults, session_reset>>

(***************************************************************************)
(* Process Supervisor                                                      *)
(***************************************************************************)
workerVars == <<running, paused, session_start, errors, url_index, last_save,
                xfer, pending, fed>>

\* start_downloader up to the grace delay, lines 112-145
StartBegin(fresh) ==
  /\ sup = "idle"
  /\ ops < MaxOps
  /\ ops' = ops + 1
  /\ IF ChildAlive
     THEN \* "Downloader already running": return True
          /\ start_result' = "ok"
          /\ UNCHANGED <<pc, mode, pause_signal, resume_signal, dup,
                         downloader_process, alive, launched, sup, stop_seen>>
     ELSE /\ start_result' = "none"
          /\ pause_signal' = FALSE
          /\ resume_signal' = FALSE
          /\ dup' = NoDup
          /\ launched' = launched + 1
          /\ downloader_process' = launched + 1
          /\ alive' = alive \cup {launched + 1}
          /\ pc' = "starting"
          /\ mode' = IF fresh THEN "fresh" ELSE "resume"
          /\ sup' = "start_grace"
          /\ stop_seen' = NoStop
  /\ UNCHANGED workerVars
  /\ UNCHANGED statsVars
  /\ UNCHANGED <<data_file, stop_deadline, then_reset, last_read, last_report>>
  /\ UNCHANGED envVars

\* start_downloader after the grace delay, lines 147-154
StartConfirm ==
  /\ sup = "start_grace"
  /\ sup' = "idle"
  /\ downloader_process' = HandleAfterCheck
  /\ start_result' = IF ChildAlive THEN "ok" ELSE "failed"
  /\ UNCHANGED <<pc, mode, alive, launched, stop_deadline, then_reset, last_read,
                 last_report, ops, data_file, stop_seen>>
  /\ UNCHANGED workerVars
  /\ UNCHANGED statsVars
  /\ UNCHANGED signalVars
  /\ UNCHANGED envVars

\* reset_stats, lines 368-385: the write of reset_data
ResetFile == Complete(NoSnap)

\* stop_downloader up to wait(timeout=8), lines 160-186; reset is TRUE when
\* reset_stats makes the call (line 366).  SIGTERM runs the worker's
\* signal_handler; a worker that has not installed it yet dies of the
\* signal.  When terminate() raises, the handle is cleared and the call
\* returns False (lines 198-201).
StopBegin(reset) ==
  /\ sup = "idle"
  /\ ops < MaxOps
  /\ ops' = ops + 1
  /\ UNCHANGED <<session_start, errors, url_index, last_save, xfer, pending,
                 fed, paused, mode, launched, last_read, last_report, start_result>>
  /\ UNCHANGED statsVars
  /\ UNCHANGED signalVars
  /\ UNCHANGED <<now, workload, config, observerVars, clear_data>>
  /\ IF ~ChildAlive
     THEN \* "Downloader not running"
          /\ downloader_process' = 0
          /\ data_file' = IF reset THEN ResetFile ELSE data_file
          /\ session_reset' = (session_reset \/ reset)
          /\ UNCHANGED <<pc, running, alive, sup, stop_deadline, then_reset,
                         orphan_snap, faults, stop_seen>>
     ELSE \E ok \in MayFail :
            IF ok
            THEN /\ sup' = "stop_wait"
                 /\ stop_deadline' = now + StopTimeoutSeconds
                 /\ then_reset' = reset
                 /\ stop_seen' = [requested |-> TRUE, saved |-> FALSE, done |-> FALSE]
                 /\ IF pc = "starting"
                    THEN /\ pc' = "killed"
                         /\ alive' = alive \ {launched}
                         /\ running' = running
                    ELSE /\ running' = FALSE
                         /\ UNCHANGED <<pc, alive>>
                 /\ UNCHANGED <<downloader_process, data_file, session_reset,
                                orphan_snap, faults>>
            ELSE /\ faults' = faults + 1
                 /\ downloader_process' = HandleAfterStop
                 /\ orphan_snap' = Snapshot(now)
                 /\ pc' = "none"
                 /\ data_file' = IF reset THEN ResetFile ELSE data_file
                 /\ session_reset' = (session_reset \/ reset)
                 /\ UNCHANGED <<running, alive, sup, stop_deadline, then_reset,
                                stop_seen>>

\* stop_downloader, lines 186-196: wait() returns, the child has exited
StopWaitDone ==
  /\ sup = "stop_wait"
  /\ ~ChildAlive
  /\ sup' = "idle"
  /\ downloader_process' = HandleAfterStop
  /\ then_reset' = FALSE
  /\ stop_seen' = [stop_seen EXCEPT !.done = TRUE]
  /\ data_file' = IF then_reset THEN ResetFile ELSE data_file
  /\ session_reset' = (session_reset \/ then_reset)
  /\ UNCHANGED <<pc, mode, alive, launched, stop_deadline, last_read,
                 last_report, start_result, ops>>
  /\ UNCHANGED workerVars
  /\ UNCHANGED statsVars
  /\ UNCHANGED signalVars
  /\ UNCHANGED <<now, workload, config, observerVars, clear_data, orphan_snap, faults>>

\* stop_downloader, lines 188-196: wait(timeout=8) expires, kill()
StopTimeout ==
  /\ sup = "stop_wait"
  /\ ChildAlive
  /\ now >= stop_deadline
  /\ sup' = "idle"
  /\ pc' = "killed"
  /\ alive' = alive \ {downloader_process}
  /\ downloader_process' = HandleAfterStop
  /\ then_reset' = FALSE
  /\ stop_seen' = [stop_seen EXCEPT !.done = TRUE]
  /\ data_file' = IF then_reset THEN ResetFile ELSE data_file
  /\ session_reset' = (session_reset \/ then_reset)
  /\ UNCHANGED <<mode, launched, stop_deadline, last_read, last_report, start_result, ops>>
  /\ UNCHANGED workerVars
  /\ UNCHANGED statsVars
  /\ UNCHANGED signalVars
  /\ UNCHANGED <<now, workload, config, observerVars, clear_data, orphan_snap, faults>>

\* the worker of the live child is in its loop and paused
WorkerPaused == Tracked /\ paused

\* pause_downloader
Pause ==
  /\ sup = "idle"
  /\ ops < MaxOps
  /\ ops' = ops + 1
  /\ pause_signal' = TRUE
  /\ dup' = [dup EXCEPT !.pause = (pause_signal => dup.pause)
                                  /\ WorkerPaused /\ ~resume_signal]
  /\ UNCHANGED <<pc, mode, resume_signal, data_file, downloader_process, alive,
                 launched, sup, stop_deadline, then_reset, last_read,
                 last_report, start_result, stop_seen>>
  /\ UNCHANGED workerVars
  /\ UNCHANGED statsVars
  /\ UNCHANGED envVars

\* resume_downloader
Resume ==
  /\ sup = "idle"
  /\ ops < MaxOps
  /\ ops' = ops + 1
  /\ resume_signal' = TRUE
  /\ dup' = [dup EXCEPT !.resume = (resume_signal => dup.resume)
                                   /\ Tracked /\ ~paused /\ ~pause_signal]
  /\ UNCHANGED <<pc, mode, pause_signal, data_file, downloader_process, alive,
                 launched, sup, stop_deadline, then_reset, last_read,
                 last_report, start_result, stop_seen>>
  /\ UNCHANGED workerVars
  /\ UNCHANGED statsVars
  /\ UNCHANGED envVars

\* what load_data returns: the snapshot read, its status corrected when no
\* child runs, or the default statistics when the file cannot be read
LoadedData ==
  IF data_file.state # "complete" THEN NoSnap
  ELSE IF data_file.snap.status \in {"running", "paused"} /\ ~ChildAlive
  THEN [data_file.snap EXCEPT !.status = "stopped"]
  ELSE data_file.snap

\* load_data, lines 59-88
load_data ==
  /\ sup = "idle"
  /\ ops < MaxOps
  /\ ops' = ops + 1
  /\ last_read' = data_file.state
  /\ IF data_file.state # "complete"
     THEN \* open() or json.load raises: the default statistics
          /\ last_report' = "stopped"
          /\ UNCHANGED <<data_file, downloader_process, faults>>
     ELSE IF data_file.snap.status \in {"running", "paused"}
     THEN /\ downloader_process' = HandleAfterCheck
          /\ IF ChildAlive
             THEN /\ last_report' = data_file.snap.status
                  /\ UNCHANGED <<data_file, faults>>
             ELSE /\ last_report' = "stopped"
                  /\ \E ok \in MayFail :
                       IF ok
                       THEN /\ data_file' =
                                 Complete([data_file.snap EXCEPT !.status = "stopped"])
                            /\ faults' = faults
                       ELSE \* open() or json.dump raises: "pass"
                            /\ data_file' \in {data_file, Torn}
                            /\ faults' = faults + 1
     ELSE /\ last_report' = data_file.snap.status
          /\ UNCHANGED <<data_file, downloader_process, faults>>
  /\ UNCHANGED <<pc, mode, alive, launched, stop_deadline, then_reset,
                 stop_seen, start_result>>
  /\ UNCHANGED workerVars
  /\ UNCHANGED statsVars
  /\ UNCHANGED signalVars
  /\ UNCHANGED <<now, workload, config, observerVars, orphan_snap, session_reset>>

\* get_stats, and the periodic update of websocket_endpoint: load_data
LoadData ==
  /\ load_data
  /\ UNCHANGED <<sup, clear_data>>

\* clear_errors, line 393: data = self.load_data()
ClearBegin ==
  /\ load_data
  /\ sup' = "clearing"
  /\ clear_data' = LoadedData

\* clear_errors, lines 394-401: data["errors"] = [] and the write of data;
\* when open() or json.dump raises, the handler answers with status 500
ClearWrite ==
  /\ sup = "clearing"
  /\ sup' = "idle"
  /\ \E ok \in MayFail :
       IF ok
       THEN /\ data_file' = Complete([clear_data EXCEPT !.errors = <<>>])
            /\ faults' = faults
       ELSE /\ data_file' \in {data_file, Torn}
            /\ faults' = faults + 1
  /\ UNCHANGED <<pc, mode, downloader_process, alive, launched, stop_deadline,
                 then_reset, last_read, last_report, start_result, ops,
                 clear_data, stop_seen>>
  /\ UNCHANGED workerVars
  /\ UNCHANGED statsVars
  /\ UNCHANGED signalVars
  /\ UNCHANGED <<now, workload, config, observerVars, orphan_snap, session_reset>>

\* a child the supervisor lost track of goes on saving its snapshots
OrphanSave ==
  /\ Orphans # {}
  /\ data_file.state # "torn"
  /\ data_file' = Complete(orphan_snap)
  /\ UNCHANGED <<pc, mode, stop_seen>>
  /\ UNCHANGED workerVars
  /\ UNCHANGED statsVars
  /\ UNCHANGED signalVars
  /\ UNCHANGED supVars
  /\ UNCHANGED envVars

\* such a child exits
OrphanExit ==
  /\ \E p \in Orphans : alive' = alive \ {p}
  /\ UNCHANGED <<pc, mode, data_file, stop_seen>>
  /\ UNCHANGED workerVars
  /\ UNCHANGED statsVars
  /\ UNCHANGED signalVars
  /\ UNCHANGED <<downloader_process, launched, sup, stop_deadline, then_reset,
                 last_read, last_report, start_result, ops>>
  /\ UNCHANGED envVars

Next ==
  \/ WConstruct \/ WEnterLoop \/ WLoopTop \/ WBreak \/ WStreamEnd
  \/ WTransferError \/ WAfter \/ WSaveEnd \/ WFinalResave \/ WExit \/ WCrash
  \/ Tick
  \/ StartBegin(TRUE) \/ StartBegin(FALSE) \/ StartConfirm
  \/ StopBegin(FALSE) \/ StopBegin(TRUE) \/ StopWaitDone \/ StopTimeout
  \/ LoadData
  \/ OrphanSave \/ OrphanExit

Spec == InitSpec /\ [][Next]_vars

(***************************************************************************)
(* SpecSignals: one worker, started fresh and in its loop, and the         *)
(* supervisor's pause, resume and stop operations.                         *)
(***************************************************************************)
InitSignals ==
  /\ running = TRUE
  /\ paused = FALSE
  /\ total_bytes = 0
  /\ session_start = [set |-> TRUE, at |-> 0]
  /\ speed_samples = <<>>
  /\ data_points = <<>>
  /\ errors = <<>>
  /\ peak_speed = 0
  /\ speed_history = <<>>
  /\ baseline_speed = NoBaseline
  /\ throttle_detected = FALSE
  /\ performance_samples = <<>>
  /\ performance_stats = NoStats
  /\ pc = "loop"
  /\ url_index = 0
  /\ last_save = 0
  /\ xfer = NoXfer
  /\ pending = NoSnap
  /\ mode = "fresh"
  /\ data_file = NoFile
  /\ pause_signal = FALSE
  /\ resume_signal = FALSE
  /\ downloader_process = 1
  /\ alive = {1}
  /\ launched = 1
  /\ sup = "idle"
  /\ stop_deadline = 0
  /\ then_reset = FALSE
  /\ last_read = "none"
  /\ last_report = "none"
  /\ start_result = "none"
  /\ now = 0
  /\ workload = NoWorkload
  /\ ObserversInit
  /\ config = DefaultConfig
  /\ clear_data = NoSnap
  /\ fed = 0
  /\ orphan_snap = NoSnap
  /\ ops = 0
  /\ faults = 0
  /\ dup = NoDup
  /\ session_reset = FALSE
  /\ stop_seen = NoStop

NextSignals ==
  \/ WLoopTop \/ WBreak \/ WStreamEnd \/ WTransferError \/ WAfter \/ WSaveEnd
  \/ WFinalResave \/ WExit
  \/ Tick
  \/ Pause \/ Resume
  \/ StopBegin(FALSE) \/ StopWaitDone \/ StopTimeout

SpecSignals == InitSignals /\ [][NextSignals]_vars

(***************************************************************************)
(* SpecControl: SpecSignals with start_downloader: the supervisor may call *)
(* Start (fresh or resume) while the worker runs and after it has stopped. *)
(***************************************************************************)
NextControl ==
  \/ NextSignals
  \/ StartBegin(TRUE) \/ StartBegin(FALSE) \/ StartConfirm
  \/ WConstruct \/ WEnterLoop

SpecControl == InitSignals /\ [][NextControl]_vars

(***************************************************************************)
(* SpecResume: a worker launched with --resume constructs itself from the  *)
(* data.json it finds.  The file is any snapshot with a total, a duration, *)
(* a baseline and a verdict from the sets below; its lists are those of a  *)
(* snapshot saved before the first sample.  Or there is no data.json, or   *)
(* it is the snapshot of a session with two samples, resumed at 4000 s; or  *)
(* it does not parse, or parses and holds an entry that cannot be loaded.  *)
(***************************************************************************)
SavedTotals == {0, 1, 7, 125, 500, 1000, 1999}
SavedDurations == {0, 59, 3600}
SavedBaselines == {0, 3333, 10000}
ResumeTimes == {0, 4000}

SavedSnapshot(g, d, b, v) ==
  [full |-> TRUE, status |-> "stopped", total_gb |-> g, session_duration |-> d,
   peak_speed |-> 0, throttle_detected |-> v, baseline_speed |-> b,
   data_points |-> <<>>, errors |-> <<>>, speed_history |-> <<>>,
   performance_stats |-> RoundedStats(NoStats)]

\* the snapshot of a session that measured two samples of 50 Mbps, at 100 s
\* and at 3000 s, saved at 3000 s
SavedPoint(t, total) ==
  [timestamp |-> t, speed_mbps |-> 50, total_bytes |-> total,
   performance_category |-> categorize_speed_performance(50, ExpectedSpeed),
   expected_speed |-> ExpectedSpeed]

SavedSession ==
  [full |-> TRUE, status |-> "stopped", total_gb |-> 2, session_duration |-> 3000,
   peak_speed |-> 50, throttle_detected |-> FALSE, baseline_speed |-> 0,
   data_points |-> <<SavedPoint(100, 819200), SavedPoint(3000, 1638400)>>,
   errors |-> <<>>,
   speed_history |-> <<[speed |-> 50, timestamp |-> 100],
                       [speed |-> 50, timestamp |-> 3000]>>,
   performance_stats |-> RoundedStats([close |-> 2, below |-> 0, above |-> 0,
                                       total |-> 2])]

InitResume ==
  /\ FreshWorkerFields
  /\ pc = "starting"
  /\ url_index = 0
  /\ last_save = 0
  /\ xfer = NoXfer
  /\ pending = NoSnap
  /\ mode = "resume"
  /\ \/ \E g \in SavedTotals, d \in SavedDurations, b \in SavedBaselines,
           v \in BOOLEAN :
          /\ v => b > 0
          /\ data_file = Complete(SavedSnapshot(g, d, b, v))
     \/ data_file = NoFile
     \/ data_file = Complete(SavedSession) /\ now = 4000
     \/ data_file = Torn
     \/ data_file = Malformed(SavedSession) /\ now = 4000
  /\ pause_signal = FALSE
  /\ resume_signal = FALSE
  /\ downloader_process = 1
  /\ alive = {1}
  /\ launched = 1
  /\ sup = "start_grace"
  /\ stop_deadline = 0
  /\ then_reset = FALSE
  /\ last_read = "none"
  /\ last_report = "none"
  /\ start_result = "none"
  /\ now \in ResumeTimes
  /\ workload = NoWorkload
  /\ ObserversInit
  /\ config = DefaultConfig
  /\ clear_data = NoSnap
  /\ fed = 0
  /\ orphan_snap = NoSnap
  /\ ops = 1
  /\ faults = 0
  /\ dup = NoDup
  /\ session_reset = FALSE
  /\ stop_seen = NoStop

NextResume == WConstruct \/ WEnterLoop \/ StartConfirm

SpecResume == InitResume /\ [][NextResume]_vars

(***************************************************************************)
(* Properties of the detector and the aggregator                           *)
(***************************************************************************)
\* a step that fed one sample to the aggregator and the detector
UpdateStep == fed' = fed + 1

\* the time of the latest insertion into speed_history
LatestInsertion ==
  IF speed_history = <<>> THEN 0 ELSE speed_history[Len(speed_history)].timestamp

\* the speeds of the entries within 10 minutes of the latest insertion
RecentSpeeds ==
  LET t == LatestInsertion
      idx == {i \in 1..Len(speed_history) :
                 speed_history[i].timestamp > t - 600}
  IN  [i \in idx |-> speed_history[i].speed]

RECURSIVE SumOver(_, _)
SumOver(f, S) ==
  IF S = {} THEN 0
  ELSE LET lo == CHOOSE i \in S : \A j \in S : i <= j
           hi == CHOOSE i \in S : \A j \in S : j <= i
           mid == (lo + hi) \div 2
       IN  IF lo = hi THEN f[lo]
           ELSE SumOver(f, {i \in S : i <= mid}) + SumOver(f, {i \in S : i > mid})

\* C6 (as claimed): the throttle verdict is false whenever fewer than 300
\* speed_history entries fall within the last 10 minutes.
C6_FalseBelow300 ==
  Cardinality(DOMAIN RecentSpeeds) < 300 => ~throttle_detected

\* C6 (amended): a detector update at which fewer than 300 speed_history
\* entries fall within the last 10 minutes leaves the throttle verdict as it
\* was before the update.
C6_UnchangedBelow300 ==
  [][(UpdateStep /\ Cardinality(DOMAIN RecentSpeeds)' < 300)
       => throttle_detected' = throttle_detected]_vars

\* C6 witness: an update has left fewer than 300 recent entries and the
\* verdict it kept is Throttled.
C6_Witness ==
  /\ fed > 300
  /\ Cardinality(DOMAIN RecentSpeeds) < 300
  /\ throttle_detected

\* C7: after every detector update with a positive baseline and at least 300
\* entries within the last 10 minutes, the verdict is Throttled iff the mean
\* of those entries is below threshold_speed = baseline*(1 - 30/100) and at
\* least 80% of them are below threshold_speed; with baseline 100, 300
\* entries at 50 give true, and 300 entries of which 200 are below 70 give
\* false.
C7_VerdictRule ==
  LET r == RecentSpeeds
      n == Cardinality(DOMAIN r)
      b == baseline_speed
      \* x < baseline * 70/100, for x = p/q
      below(p, q) == p * b.den * 100 < b.num * 70 * q
      nbelow == Cardinality({i \in DOMAIN r : below(r[i], 1)})
  IN  /\ (fed > 0 /\ b.set /\ b.num > 0 /\ n >= 300)
          => (throttle_detected <=>
                (below(SumOver(r, DOMAIN r), n) /\ 5 * nbelow >= 4 * n))
      /\ (fed > 0 /\ b.set /\ b.num = 100 * b.den /\ n = 300
            /\ \A i \in DOMAIN r : r[i] = 50)
          => throttle_detected
      /\ (fed > 0 /\ b.set /\ b.num = 100 * b.den /\ n = 300
            /\ Cardinality({i \in DOMAIN r : r[i] < 70}) = 200)
          => ~throttle_detected

\* C7 witness: 300 recent entries, mean below the threshold but fewer than
\* 80% of them below it, and the verdict is Normal.
C7_Witness ==
  LET r == RecentSpeeds
  IN  /\ baseline_speed.set /\ baseline_speed.num = 100 * baseline_speed.den
      /\ Cardinality(DOMAIN r) = 300
      /\ Cardinality({i \in DOMAIN r : r[i] < 70}) = 200
      /\ SumOver(r, DOMAIN r) < 70 * 300
      /\ ~throttle_detected

\* C8: baseline_speed, once set, is unchanged by every later sample update.
C8_BaselineImmutable ==
  [][(UpdateStep /\ baseline_speed.set) => baseline_speed' = baseline_speed]_vars

\* C8 witness: samples have been fed after the baseline was established and
\* the first 150 entries of the history are no longer the ones it came from.
C8_Witness ==
  /\ baseline_speed.set
  /\ fed > 150
  /\ Len(speed_history) >= 150
  /\ SumRange(speed_history, 1, 150) # baseline_speed.num

\* C10: recent_speeds never holds more than 30 entries, performance_samples
\* and data_points never more than 1000 each, and a sample pushed into a
\* full window evicts the oldest entry.
C10_Bounded ==
  /\ [](/\ Len(speed_samples) <= 30
        /\ Len(performance_samples) <= 1000
        /\ Len(data_points) <= 1000)
  /\ [][UpdateStep =>
          /\ Len(speed_samples) = 30 =>
               SubSeq(speed_samples', 1, 29) = Tail(speed_samples)
          /\ Len(performance_samples) = 1000 =>
               SubSeq(performance_samples', 1, 999) = Tail(performance_samples)
          /\ Len(data_points) = 1000 =>
               SubSeq(data_points', 1, 999) = Tail(data_points)
          /\ Len(speed_samples) < 30 =>
               SubSeq(speed_samples', 1, Len(speed_samples)) = speed_samples
          /\ Len(data_points) < 1000 =>
               SubSeq(data_points', 1, Len(data_points)) = data_points]_vars

\* C10 witness: more than 1000 samples have been fed and the three windows
\* are full.
C10_Witness ==
  /\ fed > 1000
  /\ Len(speed_samples) = 30
  /\ Len(performance_samples) = 1000
  /\ Len(data_points) = 1000

(***************************************************************************)
(* Properties of the supervisor and the worker protocol                    *)
(***************************************************************************)
\* C1 (as claimed): once a Stop request has returned (the child exited or
\* was killed after the 8-second timeout), the worker has completed a
\* snapshot save after the request.
C1_FinalSaveBeforeExit == stop_seen.done => stop_seen.saved

\* C2 (as claimed): at most one child launched by the supervisor is alive.
C2_SingleChild == Cardinality(alive) <= 1

\* C3 (as claimed): a supervisor read of data.json never finds a partially
\* written file.
C3_AtomicSave == last_read # "torn"

\* a read of a complete snapshot with status running or paused while the
\* child of the handle is not alive
StaleStatusRead ==
  /\ LoadData
  /\ data_file.state = "complete"
  /\ data_file.snap.status \in {"running", "paused"}
  /\ downloader_process \notin alive

C5_DuplicateNoOp ==
  [][~(/\ pc = "loop" /\ running
       /\ \/ dup.pause /\ pause_signal /\ ~paused /\ paused'
          \/ dup.resume /\ resume_signal /\ ~resume_signal')]_vars

\* C9 (as claimed): total_bytes never decreases in a step of the worker,
\* nor when a worker started with --resume reloads the snapshot that holds
\* the total of the worker before it.
C9_TotalMonotonic ==
  [][IF pc = "starting"
     THEN (/\ mode = "resume"
           /\ data_file.state = "complete"
           /\ data_file.snap.full
           /\ data_file.snap.total_gb = GbThousandths(total_bytes))
            => total_bytes' >= total_bytes
     ELSE total_bytes' >= total_bytes]_vars

(***************************************************************************)
(* Properties of the history, the resume and the supervisor's calls        *)
(***************************************************************************)
\* C11: every entry of speed_history has a timestamp within 30 minutes of
\* the latest insertion.
C11_HistoryWithin30Minutes ==
  \A i \in 1..Len(speed_history) :
     /\ speed_history[i].timestamp > LatestInsertion - 1800
     /\ speed_history[i].timestamp <= LatestInsertion

\* C11 witness: more samples were inserted than are retained, and the oldest
\* retained entry is 1798 s older than the latest.
C11_Witness ==
  /\ fed > Len(speed_history)
  /\ Len(speed_history) = 900
  /\ speed_history[1].timestamp = LatestInsertion - 1798

\* a worker started with --resume constructs itself from a complete snapshot
ResumeStep ==
  /\ pc = "starting" /\ pc' = "constructed"
  /\ mode = "resume"
  /\ data_file.state = "complete"

\* C12 (as claimed): a resume from a snapshot with total_gb = g and
\* session_duration = d gives total_bytes = g*1024^3 exactly (g is held in
\* thousandths: 1000*total_bytes = k*2^30, that is, 125 divides k and
\* total_bytes = (k/125)*2^27) and session_start = now - d.
C12_ExactTotal ==
  [][ResumeStep =>
       LET k == data_file.snap.total_gb
       IN  /\ k % 125 = 0
           /\ total_bytes' = (k \div 125) * 134217728
           /\ session_start' = [set |-> TRUE, at |-> now - data_file.snap.session_duration]]_vars

\* C12 (amended): such a resume gives total_bytes = floor(g*1024^3), which
\* is g*1024^3 itself whenever that is a whole number of bytes (g = 1.0:
\* 1024^3), and session_start = now - d.
C12_FloorTotal ==
  [][ResumeStep =>
       LET k == data_file.snap.total_gb
           frac == 824 * k - 1000 * (total_bytes' - 1073741 * k)
       IN  /\ 0 <= frac /\ frac < 1000
           /\ k % 125 = 0 => total_bytes' = (k \div 125) * 134217728
           /\ session_start' = [set |-> TRUE, at |-> now - data_file.snap.session_duration]]_vars

\* C12 witness: a worker resumed from total_gb = 1.0 and session_duration =
\* 3600 holds 1024^3 bytes and a session start 3600 s in the past.
C12_Witness ==
  /\ pc = "constructed" /\ mode = "resume"
  /\ data_file.state = "complete"
  /\ data_file.snap.total_gb = 1000 /\ data_file.snap.session_duration = 3600
  /\ total_bytes = 1073741824
  /\ session_start = [set |-> TRUE, at |-> now - 3600]

\* C13 (as claimed): saving the worker's state and resuming from the
\* snapshot gives back the same baseline_speed (unset stays unset) and the
\* same throttle_detected.
C13_RestoredVerbatim ==
  LET r == Restored(Snapshot(now), now)
  IN  /\ r.throttle_detected = throttle_detected
      /\ r.baseline_speed.set = baseline_speed.set
      /\ baseline_speed.set =>
           r.baseline_speed.num * baseline_speed.den
             = baseline_speed.num * r.baseline_speed.den

\* a call of stop_downloader returns
StopReturns ==
  \/ (StopBegin(FALSE) \/ StopBegin(TRUE)) /\ sup' = "idle"
  \/ sup = "stop_wait" /\ sup' = "idle"

\* C14: a Stop that finds a live child and does not raise asks the worker
\* to terminate (the handler clears running; a child without a handler
\* dies) and waits; the wait lasts at most 8 seconds; the child is killed
\* only when the 8 seconds have elapsed, and is then no longer alive; every
\* return of Stop, on success or on error, leaves the handle cleared.
C14_StopContract ==
  /\ [](sup = "stop_wait" =>
          /\ now <= stop_deadline
          /\ stop_deadline - now <= 8)
  /\ [][/\ (sup = "idle" /\ sup' = "stop_wait") =>
             /\ stop_deadline' = now + 8
             /\ ~running' \/ launched \notin alive'
        /\ (sup = "stop_wait" /\ sup' = "idle" /\ downloader_process \in alive) =>
             now >= stop_deadline
        /\ (sup = "stop_wait" /\ sup' = "idle") => downloader_process \notin alive'
        /\ StopReturns => downloader_process' = 0]_vars

\* C14 witness: a Stop has returned after killing a worker that sat in a
\* stalled transfer for the whole 8 seconds; the handle is cleared.
C14_Witness ==
  /\ sup = "idle" /\ stop_seen.done
  /\ pc = "killed" /\ xfer.stall >= 8
  /\ now = stop_deadline
  /\ downloader_process = 0
  /\ alive = {}

\* a call of start_downloader that finds the child alive
StartWhileAlive ==
  /\ StartBegin(TRUE) \/ StartBegin(FALSE)
  /\ downloader_process \in alive

\* C15: a Start issued while the child is alive returns success, launches
\* no child, leaves the child, the worker and the handle as they are, and
\* leaves pause.signal and resume.signal as they are.
C15_StartWhileAliveNoOp ==
  [][StartWhileAlive =>
       /\ start_result' = "ok"
       /\ sup' = "idle"
       /\ UNCHANGED <<alive, launched, downloader_process, pause_signal,
                      resume_signal, pc, mode, running, paused, data_file>>]_vars

\* C15 witness: Start has returned success without launching a second
\* child; the first child is alive and both signal files are pending.
C15_Witness ==
  /\ start_result = "ok" /\ launched = 1
  /\ downloader_process = 1 /\ alive = {1}
  /\ pause_signal /\ resume_signal

\* C16: when the launched child has exited by the end of the grace delay,
\* Start returns failure and clears the handle (otherwise it returns
\* success and keeps it); after a failed Start the liveness check finds no
\* child, and the next Start launches a new one.
C16_StartFailureReported ==
  /\ [](start_result = "failed" => downloader_process = 0 /\ ~ChildAlive)
  /\ [][/\ (StartConfirm /\ downloader_process \notin alive) =>
             /\ start_result' = "failed"
             /\ downloader_process' = 0
        /\ (StartConfirm /\ downloader_process \in alive) =>
             /\ start_result' = "ok"
             /\ downloader_process' = downloader_process
        /\ ((StartBegin(TRUE) \/ StartBegin(FALSE)) /\ start_result = "failed") =>
             /\ launched' = launched + 1
             /\ alive' = alive \cup {launched + 1}
             /\ downloader_process' = launched + 1
             /\ pc' = "starting"]_vars

\* C16 witness: the child died during the grace delay and Start has
\* returned failure with the handle cleared.
C16_Witness ==
  /\ start_result = "failed" /\ sup = "idle"
  /\ pc = "killed" /\ launched \notin alive
  /\ downloader_process = 0

\* the positions of the worker inside the while loop of run_download_loop
InLoop == pc \in {"loop", "pausedsleep", "transfer", "after", "saving"}

\* C17: inside the loop the running flag is cleared only by a stop request,
\* and the loop is left only with the flag cleared (or by the death of the
\* process); a transfer failure is recorded and followed by the accounting
\* of the iteration, and a failed save is followed by the next iteration.
C17_FailuresNotFatal ==
  [][/\ (InLoop /\ running /\ ~running') => (sup = "idle" /\ sup' = "stop_wait")
     /\ (InLoop /\ ~InLoop') =>
          \/ ~running /\ pc = "loop" /\ pc' = "final1"
          \/ pc' \in {"killed", "none"}
     /\ WTransferError =>
          /\ Len(errors') = Len(errors) + 1
          /\ pc' = "after" /\ running' = running
     /\ (WAfter /\ faults' = faults + 1) =>
          /\ pc' = "loop" /\ running' = running
          /\ data_file' = data_file]_vars

\* C17 witness: the worker is in the transfer of its second iteration and
\* running, after a transfer failure and a failed save in the first.
C17_Witness ==
  /\ pc = "transfer" /\ running /\ url_index = 2
  /\ Len(errors) = 1 /\ faults = 1
  /\ downloader_process = 1 /\ alive = {1}
  /\ data_file.state = "absent"

\* C18 (as claimed): once a stop or a pause has been requested while a
\* transfer is receiving chunks, the transfer receives no further data: it
\* ends at the next chunk with the bytes it has.
C18_InterruptedWithinChunk ==
  [][(pc = "transfer" /\ xfer.rate > 0 /\ (~running \/ pause_signal)) =>
       xfer'.bytes = xfer.bytes]_vars

\* C19 (as claimed): after every poll of the signal files by the worker,
\* neither pause.signal nor resume.signal is still present.
C19_SelfClearing ==
  [][(WLoopTop /\ running) => (~pause_signal' /\ ~resume_signal')]_vars

(***************************************************************************)
(* SpecBroadcast: the observers of the dashboard.  Every /ws connection    *)
(* runs websocket_endpoint, which adds its socket to                       *)
(* self.websocket_connections after the accept and discards it in its      *)
(* finally clause; broadcast_to_websockets walks that same set and         *)
(* suspends on every send, so the endpoints run between two sends.  The    *)
(* periodic load_data of an endpoint is the action LoadData of Spec.       *)
(***************************************************************************)
MaxObservers == 3
MaxBroadcasts == 2

\* websocket_endpoint up to the add: a new socket object joins the set.
Connect ==
  /\ accepted < MaxObservers
  /\ accepted' = accepted + 1
  /\ websocket_connections' = websocket_connections \cup {accepted + 1}
  /\ UNCHANGED <<closed, broadcast, processVars>>

\* The client of socket w goes away: every later send to w raises.
ClientGone(w) ==
  /\ w \in 1..accepted
  /\ w \notin closed
  /\ closed' = closed \cup {w}
  /\ UNCHANGED <<websocket_connections, accepted, broadcast, processVars>>

\* websocket_endpoint's own send raised: its finally clause discards w.
EndpointExit(w) ==
  /\ w \in closed \cap websocket_connections
  /\ websocket_connections' = websocket_connections \ {w}
  /\ UNCHANGED <<closed, accepted, broadcast, processVars>>

\* broadcast_to_websockets up to its first await: the early return on an
\* empty set, else the set iterator is created (it remembers the size of
\* the set) and the send to the first socket begins.
BroadcastBegin ==
  /\ broadcast.pc # "sending"
  /\ broadcast.calls < MaxBroadcasts
  /\ IF websocket_connections = {}
       THEN broadcast' = [NoBroadcast EXCEPT !.pc = "done",
                                             !.calls = broadcast.calls + 1]
       ELSE \E w \in websocket_connections :
              broadcast' = [pc |-> "sending",
                            calls |-> broadcast.calls + 1,
                            targets |-> websocket_connections,
                            size |-> Cardinality(websocket_connections),
                            visited |-> {}, current |-> w,
                            delivered |-> {}, disconnected |-> {}]
  /\ UNCHANGED <<websocket_connections, closed, accepted, processVars>>

\* The pending send returns or raises, and the for statement asks the
\* iterator for the next socket.  A set whose size differs from the size
\* the iterator remembers raises RuntimeError there, outside the try: the
\* call ends without the final subtraction.  With the size unchanged the
\* iterator goes on; a socket added meanwhile may or may not be visited.
SendReturns ==
  /\ broadcast.pc = "sending"
  /\ LET w == broadcast.current
         b1 == [broadcast EXCEPT
                  !.visited = @ \cup {w},
                  !.delivered = IF w \in closed THEN @ ELSE @ \cup {w},
                  !.disconnected = IF w \in closed THEN @ \cup {w} ELSE @]
         rest == websocket_connections \ b1.visited
     IN  IF Cardinality(websocket_connections) # broadcast.size
           THEN /\ broadcast' = [b1 EXCEPT !.pc = "aborted", !.current = 0]
                /\ UNCHANGED websocket_connections
           ELSE \/ /\ \E n \in rest : broadcast' = [b1 EXCEPT !.current = n]
                   /\ UNCHANGED websocket_connections
                \/ /\ rest \subseteq (websocket_connections \ broadcast.targets)
                   /\ broadcast' = [b1 EXCEPT !.pc = "done", !.current = 0]
                   /\ websocket_connections' =
                        websocket_connections \ b1.disconnected
  /\ UNCHANGED <<closed, accepted, processVars>>

NextBroadcast ==
  \/ Connect
  \/ \E w \in 1..MaxObservers : ClientGone(w)
  \/ \E w \in 1..MaxObservers : EndpointExit(w)
  \/ BroadcastBegin
  \/ SendReturns

SpecBroadcast == InitSpec /\ [][NextBroadcast]_vars

\* C20 (as claimed): when a broadcast has ended, every socket that was in
\* the set when it began and is still connected and healthy has received
\* the snapshot, and every socket whose send failed has left the set, also
\* when sockets joined or left the set while a send was pending.
C20_BroadcastSurvivesChanges ==
  (broadcast.pc \in {"done", "aborted"}) =>
    /\ ((broadcast.targets \cap websocket_connections) \ closed)
         \subseteq broadcast.delivered
    /\ broadcast.disconnected \cap websocket_connections = {}

(***************************************************************************)
(* Properties of the categorisation, the error list and the resume load    *)
(***************************************************************************)
\* the category the rule of C21 gives a speed
CategoryByRule(speed, expected) ==
  LET belowLow == 5 * speed < 4 * expected
      aboveHigh == 5 * speed > 6 * expected
  IN  IF belowLow THEN "far_below_expected"
      ELSE IF aboveHigh THEN "far_above_expected"
      ELSE "close_to_expected"

\* C21: every recorded sample carries the category of the rule: below
\* 0.8*expected far_below_expected, above 1.2*expected far_above_expected,
\* and close_to_expected otherwise, the two ends of the band included; with
\* expected = 60: 45 far below, 48, 60 and 72 close, 75 far above.
C21_Categorization ==
  /\ \A i \in 1..Len(data_points) :
       data_points[i].performance_category =
         CategoryByRule(data_points[i].speed_mbps, data_points[i].expected_speed)
  /\ \A i \in 1..Len(data_points) :
       LET p == data_points[i]
       IN  p.expected_speed = 60 =>
             /\ p.speed_mbps = 45 => p.performance_category = "far_below_expected"
             /\ p.speed_mbps \in {48, 60, 72} =>
                  p.performance_category = "close_to_expected"
             /\ p.speed_mbps = 75 => p.performance_category = "far_above_expected"

\* C21 witness: the samples 45, 48, 60, 72 and 75 Mbps have been recorded,
\* with the categories far below, close, close, close, far above.
C21_Witness ==
  /\ Len(data_points) = 5
  /\ [i \in 1..5 |-> data_points[i].speed_mbps] = <<45, 48, 60, 72, 75>>
  /\ performance_samples =
       <<"far_below_expected", "close_to_expected", "close_to_expected",
         "close_to_expected", "far_above_expected">>

(***************************************************************************)
(* SpecErrors: a worker launched with --resume over the snapshot of a      *)
(* session that had recorded no, nine or ten (or more) transfer failures,  *)
(* running its loop with transfers that may fail.                          *)
(***************************************************************************)
SavedErrorCounts == {0, 9, 10}

\* the errors list of a snapshot: k entries of download_chunk's except clause
SavedErrors(k) == [i \in 1..k |-> [timestamp |-> 0, url |-> 1]]

InitErrors ==
  /\ FreshWorkerFields
  /\ pc = "starting"
  /\ url_index = 0
  /\ last_save = 0
  /\ xfer = NoXfer
  /\ pending = NoSnap
  /\ mode = "resume"
  /\ \E k \in SavedErrorCounts :
        data_file = Complete([SavedSnapshot(0, 0, 0, FALSE)
                                EXCEPT !.errors = SavedErrors(k)])
  /\ pause_signal = FALSE
  /\ resume_signal = FALSE
  /\ downloader_process = 1
  /\ alive = {1}
  /\ launched = 1
  /\ sup = "idle"
  /\ stop_deadline = 0
  /\ then_reset = FALSE
  /\ last_read = "none"
  /\ last_report = "none"
  /\ start_result = "ok"
  /\ now = 0
  /\ workload = NoWorkload
  /\ ObserversInit
  /\ config = DefaultConfig
  /\ clear_data = NoSnap
  /\ fed = 0
  /\ orphan_snap = NoSnap
  /\ ops = 1
  /\ faults = 0
  /\ dup = NoDup
  /\ session_reset = FALSE
  /\ stop_seen = NoStop

NextErrors ==
  \/ WConstruct \/ WEnterLoop \/ WLoopTop \/ WStreamEnd \/ WTransferError
  \/ WAfter \/ WSaveEnd \/ Tick

SpecErrors == InitErrors /\ [][NextErrors]_vars

\* C22 (as claimed): the error list the worker holds, and the error list of
\* every snapshot it builds or has written, have at most 10 entries.
C22_ErrorsBounded ==
  /\ Len(errors) <= 10
  /\ Len(pending.errors) <= 10
  /\ data_file.state = "complete" => Len(data_file.snap.errors) <= 10

\* the construction of a worker launched with --resume when no data.json
\* exists
ResumeWithoutSnapshot ==
  /\ pc = "starting" /\ pc' = "constructed"
  /\ mode = "resume" /\ data_file.state = "absent"

\* C23: a worker resumed without a snapshot is constructed as a fresh
\* session: total_bytes 0, empty windows, points and history, no baseline,
\* verdict false, session_start = now; it goes on into its loop with that
\* session_start, and start_downloader reports success.
C23_ResumeWithoutSnapshotIsFresh ==
  /\ [][ResumeWithoutSnapshot =>
          /\ total_bytes' = 0
          /\ speed_samples' = <<>> /\ performance_samples' = <<>>
          /\ data_points' = <<>> /\ speed_history' = <<>>
          /\ errors' = <<>> /\ peak_speed' = 0
          /\ baseline_speed' = NoBaseline
          /\ throttle_detected' = FALSE
          /\ session_start' = [set |-> TRUE, at |-> now]]_vars
  /\ [][(mode = "resume" /\ data_file.state = "absent" /\ pc = "constructed") =>
          /\ pc' \in {"constructed", "loop"}
          /\ session_start' = session_start
          /\ pc' = "loop" => running']_vars
  /\ []((mode = "resume" /\ data_file.state = "absent" /\ sup = "idle") =>
          start_result = "ok")

\* C23 witness: the worker resumed without a snapshot is in its loop, running,
\* with a zero total and session_start at the time of its launch, and the
\* start has reported success.
C23_Witness ==
  /\ mode = "resume" /\ data_file.state = "absent"
  /\ pc = "loop" /\ running /\ start_result = "ok"
  /\ total_bytes = 0 /\ speed_history = <<>> /\ ~baseline_speed.set
  /\ session_start = [set |-> TRUE, at |-> now] /\ now = 4000

(***************************************************************************)
(* SpecStatsResumed: SpecStats for a worker launched with --resume over    *)
(* the snapshot of a session that had saved before its first sample (no    *)
(* baseline yet), and now in its loop.                                     *)
(***************************************************************************)
InitStatsResumed ==
  LET r == Restored(SavedSnapshot(0, 0, 0, FALSE), 0)
  IN  /\ pc = "loop"
      /\ running = TRUE
      /\ paused = FALSE
      /\ total_bytes = r.total_bytes
      /\ session_start = r.session_start
      /\ speed_samples = <<>>
      /\ data_points = r.data_points
      /\ errors = r.errors
      /\ peak_speed = r.peak_speed
      /\ speed_history = r.speed_history
      /\ baseline_speed = r.baseline_speed
      /\ throttle_detected = r.throttle_detected
      /\ performance_samples = r.performance_samples
      /\ performance_stats = r.performance_stats
      /\ url_index = 0
      /\ last_save = 0
      /\ xfer = NoXfer
      /\ pending = NoSnap
      /\ data_file = Complete(SavedSnapshot(0, 0, 0, FALSE))
      /\ pause_signal = FALSE
      /\ resume_signal = FALSE
      /\ downloader_process = 1
      /\ alive = {1}
      /\ launched = 1
      /\ sup = "idle"
      /\ stop_deadline = 0
      /\ mode = "resume"
      /\ then_reset = FALSE
      /\ last_read = "none"
      /\ last_report = "none"
      /\ start_result = "ok"
      /\ now = 0
      /\ workload \in Workloads
      /\ ObserversInit
      /\ config = DefaultConfig
      /\ clear_data = NoSnap
      /\ fed = 0
      /\ orphan_snap = NoSnap
      /\ ops = 1
      /\ faults = 0
      /\ dup = NoDup
      /\ session_reset = FALSE
      /\ stop_seen = NoStop

SpecStatsResumed == InitStatsResumed /\ [][NextStats]_vars

\* no baseline has been established: none is held, or the one held is the
\* 0 that a snapshot saved without a baseline carries
NoBaselineEstablished == ~baseline_speed.set \/ baseline_speed.num = 0

\* C24 (as claimed): when no baseline has been established, a detector
\* update that leaves at least 150 entries in speed_history sets
\* baseline_speed to the mean of the first 150 of them.
C24_BaselineAtFirst150 ==
  [][(UpdateStep /\ NoBaselineEstablished /\ Len(speed_history') >= BaselineEntries) =>
       /\ baseline_speed'.set
       /\ baseline_speed'.num * BaselineEntries =
            SumRange(speed_history', 1, BaselineEntries) * baseline_speed'.den]_vars

(***************************************************************************)
(* SpecSignalsLive: SpecSignals with the scheduling of the worker: a step  *)
(* of the worker's own code that can be taken is taken, a response that    *)
(* streams comes to an end, and time passes.                               *)
(***************************************************************************)
WorkerStep == WLoopTop \/ WBreak \/ WAfter \/ WSaveEnd \/ WFinalResave \/ WExit

SpecSignalsLive ==
  /\ InitSignals /\ [][NextSignals]_vars
  /\ WF_vars(WorkerStep)
  /\ WF_vars(WStreamEnd \/ WTransferError)
  /\ WF_vars(Tick)

\* pause.signal is present, requested while the worker was running and not
\* paused, and no resume has been requested since
PauseRequestPending ==
  /\ Tracked /\ running /\ ~paused
  /\ pause_signal /\ ~dup.pause
  /\ resume_signal => dup.resume

\* the worker is in an iteration in which it is paused and idles
PausedIteration == pc = "pausedsleep" /\ paused

\* the request is still pending where the exploration ends
PendingAtHorizon ==
  pause_signal /\ (now = MaxTime \/ url_index = MaxIterations)

\* C25 (as claimed): a pause requested while the worker is running and not
\* paused leads to an iteration in which the worker is paused and performs
\* no transfer, unless a resume or a stop is requested after it, whatever
\* signals were sent before it.
C25_PauseTakesEffect ==
  /\ PauseRequestPending ~>
       \/ PausedIteration
       \/ ~running \/ ~Tracked
       \/ resume_signal /\ ~dup.resume
       \/ PendingAtHorizon
  \* the request is not lost: the poll that removes pause.signal begins an
  \* iteration in which the worker is paused
  /\ [][(PauseRequestPending /\ WLoopTop /\ ~pause_signal') =>
          PausedIteration']_vars

(***************************************************************************)
(* Properties of the status the worker saves                               *)
(***************************************************************************)
\* C26 (as claimed): after a stop request, the snapshot of the final save of
\* run_download_loop and the snapshot the worker leaves in data.json when it
\* exits have status stopped, whatever the worker was doing when the stop
\* arrived.
C26_FinalStatusStopped ==
  [][/\ (WLoopTop /\ ~running /\ stop_seen.requested) =>
          pending'.status = "stopped"
     /\ (WExit /\ stop_seen.requested) =>
          data_file'.snap.status = "stopped"]_vars

\* data.json holds a complete snapshot with status paused
PausedPersisted ==
  data_file.state = "complete" /\ data_file.snap.status = "paused"

\* C27 (as claimed): a worker that is paused and stays paused, with no
\* resume and no stop requested, leads to a data.json whose status is
\* paused.
C27_PausedStatusPersisted ==
  (Tracked /\ paused) ~>
    \/ PausedPersisted
    \/ ~paused \/ resume_signal
    \/ ~running \/ ~Tracked

\* What the worker does instead: a paused iteration (lines 356-360) only
\* sleeps, so every snapshot with status paused is built after a stop.
PausedStatusOnlyAfterStop ==
  /\ pending.status = "paused" => ~running
  /\ PausedPersisted => ~running

(***************************************************************************)
(* SpecClear: SpecSignals with the supervisor's clear_errors, whose read   *)
(* of data.json and whose write are two steps: the worker, another         *)
(* process, runs between them.                                             *)
(***************************************************************************)
NextClear == NextSignals \/ ClearBegin \/ ClearWrite

SpecClear == InitSignals /\ [][NextClear]_vars

\* the worker has completed a save, is not in the middle of another, and
\* pending is the snapshot of that save
WorkerSaveComplete ==
  /\ pending.full
  /\ pc \in {"loop", "transfer", "after", "pausedsleep", "exited"}

\* a snapshot without its errors and its status
WithoutErrors(snap) == [snap EXCEPT !.errors = <<>>, !.status = "stopped"]

\* C28 (as claimed): when clear_errors has written, data.json is the
\* snapshot of the worker's most recent save with an empty errors list: no
\* other field differs (the status apart, which load_data may correct), also
\* when the worker saved between the read and the write of clear_errors.
C28_ClearErrorsOnlyErrors ==
  [][(ClearWrite /\ faults' = faults /\ WorkerSaveComplete) =>
       WithoutErrors(data_file'.snap) = WithoutErrors(pending)]_vars

\* C29 (as claimed): when the resume load completes, speed_history holds the
\* persisted entries whose timestamp is within 30 minutes of the resume
\* time, and no others.
C29_ResumedHistoryPruned ==
  [][ResumeStep =>
       speed_history' =
         SelectSeq(data_file.snap.speed_history,
                   LAMBDA e : e.timestamp > now - HistoryWindowSeconds)]_vars

\* an iteration of the loop in which the worker is paused after its poll
PausedPoll == WLoopTop /\ running /\ paused'

\* C30: an iteration in which the worker is paused performs no transfer: it
\* sleeps and returns to the top of the loop, and leaves the rotation index,
\* total_bytes, the rolling windows, speed_history, baseline_speed and
\* throttle_detected as they were.
C30_PausedIterationIdle ==
  /\ [][PausedPoll =>
          /\ pc' = "pausedsleep"
          /\ UNCHANGED <<url_index, xfer, fed, statsVars>>]_vars
  /\ [][pc = "pausedsleep" =>
          /\ pc' \notin {"transfer", "after", "saving"}
          /\ UNCHANGED <<url_index, xfer, fed, statsVars>>]_vars

\* C30 witness: after a transfer that delivered data the worker was paused,
\* has idled through an iteration and is back at the top of its loop.
C30_Witness ==
  /\ pc = "loop" /\ running /\ paused
  /\ url_index = 1 /\ total_bytes > 0 /\ Len(speed_history) = 1
  /\ now >= 2

(***************************************************************************)
(* Properties of one iteration of the worker loop                          *)
(***************************************************************************)
\* the speed of the transfer that has just ended
TransferSpeed == calculate_speed(xfer.bytes, 8 * (now - xfer.start))

\* C31: while a transfer runs only the error list may change, by one entry
\* appended; an iteration whose transfer returned 0 bytes leaves total_bytes,
\* the windows, the points, the peak, the history, the baseline and the
\* verdict unchanged; one whose transfer returned b > 0 bytes adds exactly b
\* to total_bytes and feeds exactly one sample, the speed of that transfer.
C31_AccountingPerIteration ==
  /\ [][pc = "transfer" =>
          /\ UNCHANGED <<statsVars, fed>>
          /\ \/ errors' = errors
             \/ Len(errors') = Len(errors) + 1 /\ SubSeq(errors', 1, Len(errors)) = errors]_vars
  /\ [][(WAfter /\ xfer.bytes = 0) =>
          UNCHANGED <<statsVars, fed, errors>>]_vars
  /\ [][(WAfter /\ xfer.bytes > 0) =>
          /\ total_bytes' = total_bytes + xfer.bytes
          /\ fed' = fed + 1
          /\ errors' = errors
          /\ speed_samples' = PushBounded(speed_samples, TransferSpeed, RecentCapacity)
          /\ Len(performance_samples') = Len(performance_samples) + 1
          /\ Len(data_points') = Len(data_points) + 1
          /\ data_points'[Len(data_points')].speed_mbps = TransferSpeed
          /\ data_points'[Len(data_points')].total_bytes = total_bytes'
          /\ speed_history' =
               Append(speed_history, [speed |-> TransferSpeed, timestamp |-> now])]_vars

\* C31 witness: two iterations are over, one whose transfer failed at once
\* with 0 bytes and one that received one second of data at 4 Mbps: one
\* error, one sample, 524288 bytes.
C31_Witness ==
  /\ pc = "loop" /\ url_index = 2
  /\ Len(errors) = 1 /\ fed = 1
  /\ total_bytes = 524288 /\ Len(speed_history) = 1 /\ Len(data_points) = 1

\* the number of worker steps left, at most, before a stopped worker exits
StopRank ==
  CASE pc \in {"transfer", "pausedsleep"} -> 6
    [] pc = "after" -> 5
    [] pc = "saving" -> 4
    [] pc = "loop" -> 3
    [] pc = "final1" -> 2
    [] pc = "final2" -> 1
    [] OTHER -> 0

\* the worker process is gone
ProcessExited == pc \in {"exited", "killed"} /\ launched \notin alive

\* the worker waits for the next chunk of a response that delivers none
StalledTransfer == pc = "transfer" /\ xfer.rate = 0

\* C32: after a stop signal has been delivered to a worker in its loop
\* (in a transfer that delivers chunks, between iterations or paused) the
\* loop ends and the process exits: the running flag is not set again, every
\* step the worker then takes brings it nearer to its exit, and the exit is
\* reached.
C32_StopTerminates ==
  /\ (Tracked /\ stop_seen.requested /\ ~StalledTransfer) ~> ProcessExited
  /\ [][(Tracked /\ ~running) => ~running']_vars
  /\ [][(Tracked /\ ~running /\ pc' # pc) => StopRank' < StopRank]_vars

\* C32 witness: a worker stopped while paused has left its loop, made its
\* final saves and exited by itself before the supervisor's deadline.
C32_Witness ==
  /\ pc = "exited" /\ paused /\ stop_seen.requested
  /\ now < stop_deadline
  /\ launched \notin alive

(***************************************************************************)
(* Properties of load_previous_state                                       *)
(***************************************************************************)
\* the snapshot to resume from cannot be loaded: data.json does not parse,
\* or one of its entries cannot be converted
LoadFails == mode = "resume" /\ data_file.state \in {"torn", "malformed"}

\* C33 (as claimed): when the load of the previous snapshot fails, the
\* worker is constructed as a fresh session that keeps nothing of the
\* snapshot: no bytes, no peak, no points, no errors, no history, no
\* baseline, no verdict, and session_start = now.
C33_FailedLoadIsFresh ==
  [][(WConstruct /\ LoadFails) =>
       /\ total_bytes' = 0
       /\ peak_speed' = 0
       /\ data_points' = <<>>
       /\ errors' = <<>>
       /\ speed_history' = <<>>
       /\ baseline_speed' = NoBaseline
       /\ throttle_detected' = FALSE
       /\ session_start' = [set |-> TRUE, at |-> now]]_vars

(***************************************************************************)
(* SpecResumeLoop: a worker configured with a data cap of 1 GB, launched   *)
(* with --resume at 0 s over the snapshot of a session of 51 samples that  *)
(* ended two seconds before, over a snapshot with a total of 0.999 GB or   *)
(* of 1.000 GB, or without data.json, or launched fresh, running its loop  *)
(* under pause, resume and stop requests.                                  *)
(***************************************************************************)
LongSessionSamples == 51

\* the speed of the i-th sample of the long session: 100 Mbps, then 50 Mbps
LongSessionSpeed(i) == IF i = 1 THEN 100 ELSE 50

\* total_bytes after the i-th sample: each transfer lasted one second
LongSessionTotal(i) ==
  (100 + 50 * (i - 1)) * BytesPerMbpsSecond

\* the time of the i-th sample: one every two seconds, the last one at -2 s
LongSessionTime(i) == 2 * (i - LongSessionSamples) - 2

\* update_statistics, lines 167-173: the i-th data point
LongSessionPoint(i) ==
  [timestamp |-> LongSessionTime(i), speed_mbps |-> LongSessionSpeed(i),
   total_bytes |-> LongSessionTotal(i),
   performance_category |->
     categorize_speed_performance(LongSessionSpeed(i), ExpectedSpeed),
   expected_speed |-> ExpectedSpeed]

\* save_data: the snapshot of that session, saved with its last sample
LongSession ==
  LET points == [i \in 1..LongSessionSamples |-> LongSessionPoint(i)]
  IN  [full |-> TRUE, status |-> "stopped",
       total_gb |-> GbThousandths(LongSessionTotal(LongSessionSamples)),
       session_duration |-> 2 * LongSessionSamples,
       peak_speed |-> 100, throttle_detected |-> FALSE, baseline_speed |-> 0,
       data_points |-> points,
       errors |-> <<>>,
       speed_history |-> [i \in 1..LongSessionSamples |->
                            [speed |-> LongSessionSpeed(i),
                             timestamp |-> LongSessionTime(i)]],
       performance_stats |->
         RoundedStats(update_performance_stats(CategoriesOf(points), NoStats))]

InitResumeLoop ==
  /\ FreshWorkerFields
  /\ pc = "starting"
  /\ url_index = 0
  /\ last_save = 0
  /\ xfer = NoXfer
  /\ pending = NoSnap
  /\ \/ /\ mode = "resume"
        /\ data_file \in {Complete(LongSession), NoFile,
                          Complete(SavedSnapshot(999, 59, 0, FALSE)),
                          Complete(SavedSnapshot(1000, 59, 0, FALSE))}
     \/ /\ mode = "fresh"
        /\ data_file = NoFile
  /\ pause_signal = FALSE
  /\ resume_signal = FALSE
  /\ downloader_process = 1
  /\ alive = {1}
  /\ launched = 1
  /\ sup = "idle"
  /\ stop_deadline = 0
  /\ then_reset = FALSE
  /\ last_read = "none"
  /\ last_report = "none"
  /\ start_result = "ok"
  /\ now = 0
  /\ workload = NoWorkload
  /\ ObserversInit
  /\ config = [DefaultConfig EXCEPT !.data_cap_gb = 1]
  /\ clear_data = NoSnap
  /\ fed = 0
  /\ orphan_snap = NoSnap
  /\ ops = 1
  /\ faults = 0
  /\ dup = NoDup
  /\ session_reset = FALSE
  /\ stop_seen = NoStop

NextResumeLoop == WConstruct \/ WEnterLoop \/ NextSignals

SpecResumeLoop == InitResumeLoop /\ [][NextResumeLoop]_vars

\* round(share, 1) of the three categories in the performance_samples window
WindowShares ==
  RoundedStats([close |-> CountOf(performance_samples, "close_to_expected"),
                below |-> CountOf(performance_samples, "far_below_expected"),
                above |-> CountOf(performance_samples, "far_above_expected"),
                total |-> Len(performance_samples)])

\* the three shares of a snapshot add up to 100, within the rounding of each
SharesComplete(st) == st.close + st.below + st.above \in 999..1001

\* C34 (as claimed): whenever the worker builds a snapshot to save, its three
\* percentages are the shares of the three categories in the window
\* performance_samples the worker holds at that moment, rounded to one
\* decimal, and add up to 100 when the window is not empty; also in the
\* snapshots built after a resume before any new sample.
C34_SavedSharesMatchWindow ==
  [][(pending' # pending) =>
       /\ pending'.performance_stats = WindowShares'
       /\ performance_samples' # <<>> => SharesComplete(pending'.performance_stats)]_vars

\* C35: a resume from a complete snapshot keeps the last 50 data points of
\* the snapshot and makes performance_samples the sequence of their
\* categories, in order; until the first new sample the window stays so.
C35_WindowRebuiltFromPoints ==
  /\ [][ResumeStep =>
          /\ data_points' = LastN(data_file.snap.data_points, 50)
          /\ performance_samples' = CategoriesOf(data_points')]_vars
  /\ [][(pc # "starting" /\ fed' = fed) =>
          UNCHANGED <<performance_samples, data_points>>]_vars

\* C35 witness: a worker resumed from the snapshot of 51 samples holds the
\* categories of the last 50: the far_above_expected of the first sample is
\* not in its window.
C35_Witness ==
  /\ pc = "constructed" /\ mode = "resume"
  /\ Len(data_file.snap.data_points) = LongSessionSamples
  /\ Len(performance_samples) = 50
  /\ performance_samples = CategoriesOf(data_points)
  /\ CountOf(performance_samples, "far_above_expected") = 0
  /\ CountOf(CategoriesOf(data_file.snap.data_points), "far_above_expected") = 1

(***************************************************************************)
(* SpecStatsRecover: SpecStats over one workload: 150 samples of 100 Mbps, *)
(* 300 of 50 Mbps, then 70 of 100 Mbps again.                              *)
(***************************************************************************)
RecoverWorkload ==
  [blocks |-> <<Block(150, 100), Block(300, 50), Block(70, 100)>>, period |-> 2]

InitStatsRecover ==
  /\ pc = "loop"
  /\ running = TRUE
  /\ paused = FALSE
  /\ total_bytes = 0
  /\ session_start = [set |-> TRUE, at |-> 0]
  /\ speed_samples = <<>>
  /\ data_points = <<>>
  /\ errors = <<>>
  /\ peak_speed = 0
  /\ speed_history = <<>>
  /\ baseline_speed = NoBaseline
  /\ throttle_detected = FALSE
  /\ performance_samples = <<>>
  /\ performance_stats = NoStats
  /\ url_index = 0
  /\ last_save = 0
  /\ xfer = NoXfer
  /\ pending = NoSnap
  /\ data_file = NoFile
  /\ pause_signal = FALSE
  /\ resume_signal = FALSE
  /\ downloader_process = 1
  /\ alive = {1}
  /\ launched = 1
  /\ sup = "idle"
  /\ stop_deadline = 0
  /\ mode = "fresh"
  /\ then_reset = FALSE
  /\ last_read = "none"
  /\ last_report = "none"
  /\ start_result = "none"
  /\ now = 0
  /\ workload = RecoverWorkload
  /\ ObserversInit
  /\ config = DefaultConfig
  /\ clear_data = NoSnap
  /\ fed = 0
  /\ orphan_snap = NoSnap
  /\ ops = 1
  /\ faults = 0
  /\ dup = NoDup
  /\ session_reset = FALSE
  /\ stop_seen = NoStop

SpecStatsRecover == InitStatsRecover /\ [][NextStats]_vars

(***************************************************************************)
(* Properties of the detector's messages                                   *)
(***************************************************************************)
\* the message logged by the detector update of the step that has just fed
\* a sample: the sample is the entry the update appended to the history
UpdateNotification ==
  LET e == speed_history'[Len(speed_history')]
  IN  throttle_notification(speed_history, baseline_speed, throttle_detected,
                            e.speed, e.timestamp)

\* C36: a detector update logs "detected" exactly when it changes
\* throttle_detected from false to true, "ended" exactly when it changes it
\* from true to false, and nothing when it leaves the verdict as it was.
C36_NotificationOnChange ==
  [][UpdateStep =>
       /\ UpdateNotification = "detected" <=> (~throttle_detected /\ throttle_detected')
       /\ UpdateNotification = "ended" <=> (throttle_detected /\ ~throttle_detected')
       /\ UpdateNotification = "none" <=> (throttle_detected' = throttle_detected)]_vars

\* C36 witness: in a session that began with the verdict false and saw it
\* true while the 300 recent samples were of 50 Mbps, the verdict is false
\* again after 61 samples of 100 Mbps: two updates have changed it.
C36_Witness ==
  /\ ~throttle_detected /\ baseline_speed.set
  /\ fed = 511
  /\ Len(RecentEntries(speed_history, LatestInsertion)) >= MinRecentEntries

(***************************************************************************)
(* SpecRotation: a fresh worker in its loop, configured with one to        *)
(* MaxUrls test urls, followed for MaxRotation transfers that may fail,    *)
(* under pause and resume requests.                                        *)
(***************************************************************************)
MaxUrls == 2
MaxRotation == 3

InitRotation ==
  /\ running = TRUE
  /\ paused = FALSE
  /\ total_bytes = 0
  /\ session_start = [set |-> TRUE, at |-> 0]
  /\ speed_samples = <<>>
  /\ data_points = <<>>
  /\ errors = <<>>
  /\ peak_speed = 0
  /\ speed_history = <<>>
  /\ baseline_speed = NoBaseline
  /\ throttle_detected = FALSE
  /\ performance_samples = <<>>
  /\ performance_stats = NoStats
  /\ pc = "loop"
  /\ url_index = 0
  /\ last_save = 0
  /\ xfer = NoXfer
  /\ pending = NoSnap
  /\ mode = "fresh"
  /\ data_file = NoFile
  /\ pause_signal = FALSE
  /\ resume_signal = FALSE
  /\ downloader_process = 1
  /\ alive = {1}
  /\ launched = 1
  /\ sup = "idle"
  /\ stop_deadline = 0
  /\ then_reset = FALSE
  /\ last_read = "none"
  /\ last_report = "none"
  /\ start_result = "none"
  /\ now = 0
  /\ workload = NoWorkload
  /\ ObserversInit
  /\ \E n \in 1..MaxUrls : config = [DefaultConfig EXCEPT !.test_urls = n]
  /\ clear_data = NoSnap
  /\ fed = 0
  /\ orphan_snap = NoSnap
  /\ ops = 0
  /\ faults = 0
  /\ dup = NoDup
  /\ session_reset = FALSE
  /\ stop_seen = NoStop

NextRotation ==
  \/ WLoopTopUpTo(MaxRotation)
  \/ WStreamEnd \/ WTransferError \/ WAfter \/ WSaveEnd
  \/ Tick
  \/ Pause \/ Resume

SpecRotation == InitRotation /\ [][NextRotation]_vars

\* an iteration starts a transfer
TransferStarts == pc = "loop" /\ pc' = "transfer"

\* C37: download_count counts the transfer attempts of the run, failed ones
\* included: it grows by one when a transfer starts and at no other step; the
\* k-th attempt targets the url at position (k-1) mod n of the n test urls;
\* steps that start no transfer (paused iterations among them) leave the
\* rotation where it was.
C37_RoundRobin ==
  /\ [][TransferStarts =>
          /\ xfer'.download_count = xfer.download_count + 1
          /\ xfer'.url = (xfer'.download_count - 1) % config.test_urls
          /\ url_index' = xfer'.download_count]_vars
  /\ [][~TransferStarts =>
          /\ xfer'.download_count = xfer.download_count
          /\ xfer'.url = xfer.url
          /\ url_index' = url_index]_vars

\* C37 witness: with two test urls the third attempt is in progress and
\* targets the first url again; one of the earlier attempts failed, and the
\* worker has been through a pause and a resume.
C37_Witness ==
  /\ config.test_urls = 2
  /\ pc = "transfer" /\ xfer.download_count = 3 /\ xfer.url = 0
  /\ Len(errors) >= 1
  /\ ops >= 2 /\ ~paused /\ ~pause_signal /\ ~resume_signal

(***************************************************************************)
(* Properties of the data cap                                              *)
(***************************************************************************)
\* C38: the data cap is not enforced.  With total_bytes at or above the cap
\* the running flag is cleared by a stop signal only; an iteration of a
\* running worker that is not paused starts the next transfer; and the
\* accounting that takes total_bytes to the cap leaves the flag as it was
\* and the worker in its loop.
C38_CapNotEnforced ==
  /\ [][(CapReached' /\ InLoop /\ running /\ ~running') =>
          (sup = "idle" /\ sup' = "stop_wait")]_vars
  /\ [][(WLoopTop /\ CapReached /\ running /\ ~check_pause_resume.paused) =>
          (pc' = "transfer" /\ running')]_vars
  /\ [][(~CapReached /\ CapReached' /\ pc = "after") =>
          (running' = running /\ pc' \in {"loop", "saving"})]_vars

\* C38 witness: a worker resumed with 1.000 GB under a cap of 1 GB has
\* accounted one transfer above the cap and is in its second transfer.
C38_Witness ==
  /\ config.data_cap_gb = 1 /\ CapReached
  /\ total_bytes > BytesPerGiB
  /\ running /\ pc = "transfer"
  /\ xfer.download_count = 2 /\ fed = 1

(***************************************************************************)
(* Properties of session_start                                             *)
(***************************************************************************)
\* C39: session_start is fixed once per worker process: by the constructor
\* of a resumed worker (now minus the saved duration, or now without a
\* snapshot), else at the entry of the loop (now); it is set in the loop,
\* and once set no step changes it: no iteration, pause, resume or save.
C39_SessionStartFixedOnce ==
  /\ [][(pc # "starting" /\ session_start.set) => session_start' = session_start]_vars
  /\ [][(WConstruct /\ mode = "resume") =>
          session_start' =
            [set |-> TRUE,
             at |-> IF data_file.state = "complete"
                    THEN now - data_file.snap.session_duration ELSE now]]_vars
  /\ [][(WEnterLoop /\ ~session_start.set) =>
          session_start' = [set |-> TRUE, at |-> now]]_vars
  /\ [](InLoop => session_start.set)

\* C39 witness: a worker resumed at 0 s from a session of 102 s, which has
\* taken a pause and a resume request since, has saved at a later time a
\* snapshot whose duration is still counted from 102 s before its launch.
C39_Witness ==
  /\ session_start = [set |-> TRUE, at |-> 0 - 2 * LongSessionSamples]
  /\ InLoop /\ running /\ sup = "idle" /\ ops = MaxOps
  /\ ~paused /\ ~pause_signal /\ ~resume_signal /\ fed >= 1
  /\ now >= 2
  /\ data_file.state = "complete"
  /\ data_file.snap.session_duration = now + 2 * LongSessionSamples

====
